---- MODULE Spec2Model ----
(***************************************************************************)
(* A model of the collision engine of the cube simulation: the uniform     *)
(* grid and sweep-and-prune broad phases, the separating-axis narrow       *)
(* phase, the positional and linear part of the impulse response, the      *)
(* matching-face classification and the molecule (aggregate) bookkeeping   *)
(* of Main.animate.                                                        *)
(*                                                                         *)
(* Numbers.  The program computes with IEEE doubles; the model computes    *)
(* with integers (fixed point, one unit = 1.0, quotients rounded down).    *)
(* Orientations are rotations by multiples of 90 degrees, so every box is  *)
(* on the integer lattice and the separating-axis test is exact.  The      *)
(* angular state (rotation_axis, rotation_speed) is not represented: the   *)
(* model follows the runs in which nothing spins, and the terms of         *)
(* resolveCollision that read or write the angular state are left out      *)
(* (they are named where they are left out).                               *)
(***************************************************************************)
EXTENDS Integers, Sequences, FiniteSets, TLC

----------------------------------------------------------------------------
(* Configuration (config.ts).  The sizes are a small configuration of the  *)
(* same program: a volume of 12 units holding cubes of edge 4.             *)

simulation_size == 12

atom_size == 4

number_of_atoms == 4

atom_mass == 1

restitution_coefficient == 1

(* Bounds of the model. *)
MaxTicks == 3

(* The number of getBoundingBox calls in a row that are told apart. *)
MaxCalls == 3

(* The number of resets of the simulation that are followed. *)
MaxResets == 1

Keys == 0 .. (number_of_atoms - 1)

----------------------------------------------------------------------------
(* Vector3 and Matrix3 on the integer lattice. *)

Vec(x, y, z) == <<x, y, z>>

Zero3 == <<0, 0, 0>>

Add(u, v) == <<u[1] + v[1], u[2] + v[2], u[3] + v[3]>>

Sub(u, v) == <<u[1] - v[1], u[2] - v[2], u[3] - v[3]>>

Scale(u, s) == <<u[1] * s, u[2] * s, u[3] * s>>

Negate(u) == <<-u[1], -u[2], -u[3]>>

Dot(u, v) == u[1] * v[1] + u[2] * v[2] + u[3] * v[3]

Cross(u, v) ==
  << u[2] * v[3] - u[3] * v[2],
     u[3] * v[1] - u[1] * v[3],
     u[1] * v[2] - u[2] * v[1] >>

LengthSq(u) == Dot(u, u)

Abs(n) == IF n < 0 THEN -n ELSE n

Min(a, b) == IF a < b THEN a ELSE b

Max(a, b) == IF a > b THEN a ELSE b

(* multiplyScalar(num / den) in fixed point: each component rounded down. *)
ScaleDiv(u, num, den) ==
  << (u[1] * num) \div den, (u[2] * num) \div den, (u[3] * num) \div den >>

(* An orientation is the rotation part of matrixWorld, given by its three  *)
(* columns: the world directions of the local x, y and z axes.             *)
Apply(m, v) == Add(Add(Scale(m[1], v[1]), Scale(m[2], v[2])), Scale(m[3], v[3]))

Identity == << <<1, 0, 0>>, <<0, 1, 0>>, <<0, 0, 1>> >>

(* rotateX(PI), rotateY(PI), rotateZ(PI) applied to the identity. *)
RotX == << <<1, 0, 0>>, <<0, -1, 0>>, <<0, 0, -1>> >>

RotY == << <<-1, 0, 0>>, <<0, 1, 0>>, <<0, 0, -1>> >>

RotZ == << <<-1, 0, 0>>, <<0, -1, 0>>, <<0, 0, 1>> >>

Orientations == {Identity, RotX, RotY, RotZ}

(* rotateZ(PI / 2) and rotateX(PI / 2) applied to the identity. *)
RotZ90 == << <<0, 1, 0>>, <<-1, 0, 0>>, <<0, 0, 1>> >>

RotX90 == << <<1, 0, 0>>, <<0, 0, 1>>, <<0, -1, 0>> >>

----------------------------------------------------------------------------
VARIABLES
  position,        \* Atom.position (world), per key
  orientation,     \* rotation part of Atom.matrixWorld, per key
  velocity,        \* Atom.velocity, per key
  molecule_id,     \* Atom.molecule_id, per key (-1: none)
  is_in_molecule,  \* Atom.is_in_molecule, per key
  molecule,        \* Atom.molecule, per key (id of the Molecule, or Undefined)
  molObj,          \* the Molecule objects ever constructed, by id
  molecules,       \* Main.molecules: the ids that are keys of the table
  nextId,          \* the id the next Molecule gets
  form_molecules,  \* Config.form_molecules
  pc,              \* where Main.animate is: "idle", "narrow", "stick"
  broadPhaseCollisions, \* the candidate list of the current tick
  collisions,      \* the events of the current tick (preciseCollisions)
  idx,             \* index of the next pair / event of the running loop
  tick,            \* number of ticks started
  sortedAxes,      \* SweepAndPrune._sortedAxes: per axis, the keys in stored order
  query,           \* which broad-phase query was run last
  _grid,           \* SpacePartition._grid, per cell address
  _boundingBox,    \* Atom._boundingBox, per key
  _boundingBoxDirty, \* Atom._boundingBoxDirty, per key
  scenario,        \* how many times Main.atoms has been rebuilt by a reset
  _atoms,          \* SpacePartition._atoms: the Atom objects the detector holds
  rotation_axis,   \* objA.rotation_axis and objB.rotation_axis of the contact resolved
  rotation_speed,  \* objA.rotation_speed and objB.rotation_speed of that contact
  contact,         \* that contact: what the two bodies are, and their angular impulses
  history          \* what the last step did (observation only)

vars == << position, orientation, velocity, molecule_id, is_in_molecule, molecule,
           molObj, molecules, nextId, form_molecules, pc, broadPhaseCollisions,
           collisions, idx, tick, sortedAxes, query, _grid, _boundingBox,
           _boundingBoxDirty, scenario, _atoms, rotation_axis, rotation_speed, contact,
           history >>

(* The value of Atom.molecule before setMolecule; Molecule ids start at 1. *)
Undefined == 0

(* Main.createAtoms: the Atom objects of one scenario, told apart from the *)
(* objects of every other scenario by the scenario they were built for.    *)
createAtoms(gen) == {<< gen, k >> : k \in Keys}

(* A direction as rotation_axis holds it: the unit vector at fraction      *)
(* t[1] / t[2] of the arc from the direction `from` to the direction `to`  *)
(* (a direction is written as the shortest lattice vector along it).       *)
Pure(v) == [from |-> v, to |-> v, t |-> <<0, 1>>]

(* The angular state where no contact is being looked at. *)
NoAxes == [body \in {"A", "B"} |-> Pure(Zero3)]

NoSpeeds == [body \in {"A", "B"} |-> 0]

NoContact ==
  [isMoleculeA |-> FALSE, isMoleculeB |-> FALSE, massA |-> atom_mass, massB |-> atom_mass,
   angularImpulseA |-> Zero3, angularImpulseB |-> Zero3]

----------------------------------------------------------------------------
(* Strings, as far as the candidate keys need them: a string is a sequence *)
(* of characters.                                                          *)

DigitChars == <<"0", "1", "2", "3", "4", "5", "6", "7", "8", "9">>

(* `${n}` for a key n >= 0. *)
RECURSIVE ToStr(_)
ToStr(n) ==
  IF n < 10 THEN <<DigitChars[n + 1]>>
  ELSE ToStr(n \div 10) \o <<DigitChars[(n % 10) + 1]>>

DigitValue(c) == CHOOSE d \in 0 .. 9 : DigitChars[d + 1] = c

IsDigit(c) == \E d \in 0 .. 9 : DigitChars[d + 1] = c

(* parseInt: the number written by the leading digits of s. *)
RECURSIVE ParseDigits(_, _)
ParseDigits(s, acc) ==
  IF s = <<>> \/ ~IsDigit(Head(s)) THEN acc
  ELSE ParseDigits(Tail(s), acc * 10 + DigitValue(Head(s)))

parseInt(s) == ParseDigits(s, 0)

(* s.split('-'): the pieces of s between the dashes. *)
RECURSIVE SplitDash(_, _)
SplitDash(s, piece) ==
  IF s = <<>> THEN <<piece>>
  ELSE IF Head(s) = "-" THEN <<piece>> \o SplitDash(Tail(s), <<>>)
  ELSE SplitDash(Tail(s), Append(piece, Head(s)))

split(s) == SplitDash(s, <<>>)

(* Set<string>.add: a JavaScript Set keeps insertion order and no duplicates. *)
SetAdd(set, s) == IF \E i \in 1 .. Len(set) : set[i] = s THEN set ELSE Append(set, s)

RECURSIVE SetAddAll(_, _)
SetAddAll(set, items) ==
  IF items = <<>> THEN set ELSE SetAddAll(SetAdd(set, Head(items)), Tail(items))

SetHas(set, s) == \E i \in 1 .. Len(set) : set[i] = s

----------------------------------------------------------------------------
(* Atom: bounding box (atom.ts).  For an orientation by multiples of 90    *)
(* degrees the box of the cube is the cube: centre -/+ atom_size / 2.      *)

HalfSize == atom_size \div 2

(* new Box3(), and a box after makeEmpty(). *)
EmptyBox == [empty |-> TRUE, min |-> Zero3, max |-> Zero3]

(* Box3.expandByObject for the cube of an atom at position p. *)
BoxAt(p) ==
  [empty |-> FALSE, min |-> Sub(p, <<HalfSize, HalfSize, HalfSize>>),
   max |-> Add(p, <<HalfSize, HalfSize, HalfSize>>)]

(* updateBoundingBox: the box of the atom's pose now. *)
updateBoundingBox(k) == BoxAt(position[k])

(* A getBoundingBox that recomputes on every call. *)
RecomputesAlways(k) == TRUE

(* `if (this._boundingBoxDirty)` in getBoundingBox: whether the call       *)
(* recomputes the box.                                                     *)
Recomputes(k) == _boundingBoxDirty[k]

(* getBoundingBox: the box that a call returns; after a call that found    *)
(* the box dirty it is the stored box and the dirty mark is gone.          *)
getBoundingBox(k) == IF Recomputes(k) THEN updateBoundingBox(k) ELSE _boundingBox[k]

getMin(k, axis) == getBoundingBox(k).min[axis]

getMax(k, axis) == getBoundingBox(k).max[axis]

(* Box3.intersectsBox on the boxes of two atoms: closed intervals on every axis. *)
BoxesOverlap(a, b) ==
  \A axis \in 1 .. 3 : getMax(a, axis) >= getMin(b, axis) /\ getMax(b, axis) >= getMin(a, axis)

----------------------------------------------------------------------------
(* SpacePartition (collision-detector.ts): the uniform grid. *)

grid_size == atom_size

num_rows == (simulation_size \div grid_size) + 1

(* A coordinate of getAddress that is clamped at 0 only. *)
AddressOfUnclamped(c) == Max(0, (c + (simulation_size \div 2)) \div grid_size)

(* One coordinate of getAddress:                                           *)
(*   floor(min(simulation_size / grid_size,                                *)
(*             max(0, (c + simulation_size / 2) / grid_size)))             *)
AddressOf(c) ==
  Min(simulation_size \div grid_size,
      Max(0, (c + (simulation_size \div 2)) \div grid_size))

getAddress(k) ==
  << AddressOf(position[k][1]), AddressOf(position[k][2]), AddressOf(position[k][3]) >>

KeySeq == [i \in 1 .. number_of_atoms |-> i - 1]

(* fillGrid pushes an atom only `if (x && y && z)`: 0 is falsy. *)
IsFilled(k) ==
  LET c == getAddress(k) IN c[1] # 0 /\ c[2] # 0 /\ c[3] # 0

(* The addresses of the cells of _grid. *)
Cells == (0 .. num_rows - 1) \X (0 .. num_rows - 1) \X (0 .. num_rows - 1)

(* A clearGrid that leaves the cells as they are. *)
keepGrid(grid) == grid

(* clearGrid: every cell an empty array. *)
clearGrid(grid) == [cell \in Cells |-> <<>>]

(* The atoms that fillGrid pushes onto a cell, in the order of _atoms. *)
PushedOnto(cell) == SelectSeq(KeySeq, LAMBDA k : IsFilled(k) /\ getAddress(k) = cell)

(* fillGrid: clearGrid, then the pushes. *)
fillGrid(grid) == [cell \in Cells |-> clearGrid(grid)[cell] \o PushedOnto(cell)]

(* this._grid[a][b][c] after fillGrid, as detectSpacePartitionCollisions reads it. *)
GridCell(cell) == fillGrid(_grid)[cell]

(* _NEIGHBORS[i], i = 0 .. 26. *)
NEIGHBORS(i) == << (i % 3) - 1, ((i \div 3) % 3) - 1, ((i \div 9) % 3) - 1 >>

InGridRange(c) ==
  /\ c[1] # -1 /\ c[2] # -1 /\ c[3] # -1
  /\ c[1] < num_rows /\ c[2] < num_rows /\ c[3] < num_rows

(* A broad phase that never takes two atoms to be of one molecule. *)
NeverSameMolecule(a, b) == FALSE

(* The test that drops a pair of one molecule:                             *)
(*   (atom.molecule_id == atom2.molecule_id) && atom.is_in_molecule        *)
SameMoleculePair(a, b) == molecule_id[a] = molecule_id[b] /\ is_in_molecule[a]

(* A key that names the pair in the order it was found. *)
KeyPairAsFound(a, b) == ToStr(a) \o <<"-">> \o ToStr(b)

(* The key of a pair: the smaller key first. *)
KeyPair(a, b) ==
  IF a < b THEN ToStr(a) \o <<"-">> \o ToStr(b) ELSE ToStr(b) \o <<"-">> \o ToStr(a)

(* The key pairs atom k adds for neighbour cell i, in order. *)
PairsInCell(k, i) ==
  LET cell == Add(getAddress(k), NEIGHBORS(i))
      found == IF InGridRange(cell)
               THEN SelectSeq(GridCell(cell), LAMBDA k2 : k2 # k /\ ~SameMoleculePair(k, k2))
               ELSE <<>>
  IN [j \in 1 .. Len(found) |-> KeyPair(k, found[j])]

RECURSIVE PairsOfAtom(_, _)
PairsOfAtom(k, i) ==
  IF i > 26 THEN <<>> ELSE PairsInCell(k, i) \o PairsOfAtom(k, i + 1)

RECURSIVE PairsFrom(_)
PairsFrom(k) ==
  IF k >= number_of_atoms THEN <<>> ELSE PairsOfAtom(k, 0) \o PairsFrom(k + 1)

(* The atoms a key pair names: this._atoms[parseInt(...)]. *)
PairOfKey(keyPair) == << parseInt(split(keyPair)[1]), parseInt(split(keyPair)[2]) >>

detectSpacePartitionCollisions ==
  LET collisionPairSet == SetAddAll(<<>>, PairsFrom(0))
  IN [j \in 1 .. Len(collisionPairSet) |-> PairOfKey(collisionPairSet[j])]

----------------------------------------------------------------------------
(* SweepAndPrune (the sweep-and-prune version of collision-detector.ts). *)

(* The comparator handed to Array.prototype.sort by sortAxis. *)
Compare(a, b, axis) == getMax(a, axis) - getMin(b, axis)

(* Array.prototype.sort on an array shorter than 32 elements, as V8 does   *)
(* it: the leading run is found (and reversed when strictly descending),   *)
(* the rest is inserted by binary insertion.  Indices are 0-based as in    *)
(* the engine; arr[i + 1] is element i.                                    *)
RECURSIVE RunLength(_, _, _, _)
RunLength(arr, i, descending, axis) ==
  IF i >= Len(arr) THEN i
  ELSE LET order == Compare(arr[i + 1], arr[i], axis)
       IN IF (descending /\ order >= 0) \/ (~descending /\ order < 0)
          THEN i
          ELSE RunLength(arr, i + 1, descending, axis)

Reversed(arr, n) ==
  [i \in 1 .. Len(arr) |-> IF i <= n THEN arr[n + 1 - i] ELSE arr[i]]

RECURSIVE BinarySearch(_, _, _, _, _)
BinarySearch(arr, pivot, left, right, axis) ==
  IF left >= right THEN left
  ELSE LET mid == left + ((right - left) \div 2)
       IN IF Compare(pivot, arr[mid + 1], axis) < 0
          THEN BinarySearch(arr, pivot, left, mid, axis)
          ELSE BinarySearch(arr, pivot, mid + 1, right, axis)

RECURSIVE BinaryInsertionSort(_, _, _)
BinaryInsertionSort(arr, start, axis) ==
  IF start >= Len(arr) THEN arr
  ELSE LET pivot == arr[start + 1]
           left == BinarySearch(arr, pivot, 0, start, axis)
           moved == [i \in 1 .. Len(arr) |->
                       IF i - 1 < left THEN arr[i]
                       ELSE IF i - 1 = left THEN pivot
                       ELSE IF i - 1 <= start THEN arr[i - 1]
                       ELSE arr[i]]
       IN BinaryInsertionSort(moved, start + 1, axis)

(* sortAxis: sorted.sort((a, b) => axis.getMax(a) - axis.getMin(b)). *)
sortAxis(arr, axis) ==
  IF Len(arr) < 2 THEN arr
  ELSE LET descending == Compare(arr[2], arr[1], axis) < 0
           run == RunLength(arr, 2, descending, axis)
           made == IF descending THEN Reversed(arr, run) ELSE arr
       IN BinaryInsertionSort(made, run, axis)

(* The inner loop of sweepAxis for the atom at index i: the pairs added    *)
(* until the first later atom whose minimum exceeds atom i's maximum.      *)
RECURSIVE SweepFrom(_, _, _, _)
SweepFrom(sorted, i, j, axis) ==
  IF j > Len(sorted) THEN <<>>
  ELSE IF getMin(sorted[j], axis) > getMax(sorted[i], axis) THEN <<>>
  ELSE <<KeyPair(sorted[i], sorted[j])>> \o SweepFrom(sorted, i, j + 1, axis)

RECURSIVE SweepAll(_, _, _)
SweepAll(sorted, i, axis) ==
  IF i > Len(sorted) THEN <<>>
  ELSE SweepFrom(sorted, i, i + 1, axis) \o SweepAll(sorted, i + 1, axis)

sweepAxis(sorted, axis) == SetAddAll(<<>>, SweepAll(sorted, 1, axis))

(* this._atoms.find(atom => atom.key === key): the key itself, or nothing. *)
FindAtom(key) == IF key \in Keys THEN <<key>> ELSE <<>>

(* detectSAPCollisions, given the three arrays as sortAxis left them. *)
detectSAPCollisions(sortedNow) ==
  LET xOverlaps == sweepAxis(sortedNow[1], 1)
      yOverlaps == sweepAxis(sortedNow[2], 2)
      zOverlaps == sweepAxis(sortedNow[3], 3)
      inAll == SelectSeq(xOverlaps, LAMBDA pair : SetHas(yOverlaps, pair) /\ SetHas(zOverlaps, pair))
      named == [j \in 1 .. Len(inAll) |-> PairOfKey(inAll[j])]
  IN SelectSeq(named, LAMBDA p :
       /\ FindAtom(p[1]) # <<>> /\ FindAtom(p[2]) # <<>>
       /\ ~SameMoleculePair(p[1], p[2]))

----------------------------------------------------------------------------
(* areMatchingFacesColliding (matching-faces-test.ts). *)

(* The eight corners A .. H of the cube, in units of atom_size / 2. *)
CornerSigns ==
  << <<-1, 1, -1>>, <<1, 1, -1>>, <<-1, -1, -1>>, <<1, -1, -1>>,
     <<-1, 1, 1>>, <<1, 1, 1>>, <<-1, -1, 1>>, <<1, -1, 1>> >>

(* getWorldSpaceVertices: corner `index` (0 .. 7) of atom k in world space. *)
WorldVertex(k, index) ==
  Add(position[k], Apply(orientation[k], Scale(CornerSigns[index + 1], HalfSize)))

(* vertexIndexToFaces: front 0, back 1, left 2, right 3, top 4, bottom 5. *)
vertexIndexToFaces(index) ==
  CASE index = 0 -> {0, 2, 4}
    [] index = 1 -> {0, 3, 4}
    [] index = 2 -> {0, 2, 5}
    [] index = 3 -> {0, 3, 5}
    [] index = 4 -> {1, 2, 4}
    [] index = 5 -> {1, 3, 4}
    [] index = 6 -> {1, 2, 5}
    [] index = 7 -> {1, 3, 5}
    [] OTHER -> {-1}

(* vertexDistances[n], n = 0 .. 63, in the order pushed: indexA = n / 8,   *)
(* indexB = n % 8.  Distances are compared by their squares.               *)
VertexDistanceSq(a, b, n) ==
  LengthSq(Sub(WorldVertex(a, n \div 8), WorldVertex(b, n % 8)))

(* The comparator of vertexDistances.sort, made total by the order in     *)
(* which the entries were pushed (the sort is stable).                     *)
SortsBefore(p, q) == p[1] < q[1] \/ (p[1] = q[1] /\ p[2] < q[2])

(* The entry that the sort puts first among `entries`. *)
Nearest(entries) == CHOOSE p \in entries : \A q \in entries : ~SortsBefore(q, p)

(* vertexDistances.sort(...) followed by the loop that reads entries 0, 1  *)
(* and 2: the indices n of the three nearest entries, nearest first.       *)
ClosestPairs(a, b) ==
  LET entries == {<<VertexDistanceSq(a, b, n), n>> : n \in 0 .. 63}
      first == Nearest(entries)
      second == Nearest(entries \ {first})
      third == Nearest(entries \ {first, second})
  IN <<first[2], second[2], third[2]>>

areMatchingFacesColliding(a, b) ==
  LET closest == ClosestPairs(a, b)
      sharedFaces == [i \in 1 .. 3 |->
                        vertexIndexToFaces(closest[i] \div 8) \cap vertexIndexToFaces(closest[i] % 8)]
      sharedFace == {e \in sharedFaces[1] : e \in sharedFaces[2] /\ e \in sharedFaces[3]}
  IN sharedFace # {}

----------------------------------------------------------------------------
(* SATCollisionDetector (collision-detector.ts). *)

(* The null that findCollisionInfo returns for a separated pair. *)
NoCollision == [isNull |-> TRUE]

(* projectOBBOntoAxis: <<min, max>> of atom k's box along axis. *)
projectOBBOntoAxis(k, axis) ==
  LET centerProjection == Dot(position[k], axis)
      radius == (Abs(Dot(orientation[k][1], axis)) * atom_size) \div 2
              + (Abs(Dot(orientation[k][2], axis)) * atom_size) \div 2
              + (Abs(Dot(orientation[k][3], axis)) * atom_size) \div 2
  IN << centerProjection - radius, centerProjection + radius >>

(* A test that never finds a gap. *)
OverlapWithoutGap(projA, projB) ==
  [separated |-> FALSE, overlap |-> Min(projA[2] - projB[1], projB[2] - projA[1])]

(* The test of two projections [min, max] for a gap, and their overlap. *)
Overlap(projA, projB) ==
  IF ~(projA[2] >= projB[1] /\ projB[2] >= projA[1])
  THEN [separated |-> TRUE, overlap |-> 0]
  ELSE [separated |-> FALSE, overlap |-> Min(projA[2] - projB[1], projB[2] - projA[1])]

(* testSeparatingAxis: [separated, overlap]. *)
testSeparatingAxis(a, b, axis) ==
  Overlap(projectOBBOntoAxis(a, axis), projectOBBOntoAxis(b, axis))

(* The cross products of A's axes with B's axes; the degenerate ones       *)
(* (length <= EPSILON) are dropped.  On the lattice the others are unit.   *)
CrossAxes(a, b) ==
  LET all == [n \in 1 .. 9 |->
                Cross(orientation[a][((n - 1) \div 3) + 1], orientation[b][((n - 1) % 3) + 1])]
  IN SelectSeq(all, LAMBDA c : LengthSq(c) > 0)

testAxes(a, b) == orientation[a] \o orientation[b] \o CrossAxes(a, b)

(* The axis taken as the collision normal without turning it. *)
AxisAsListed(a, b, axis) == axis

(* The collision normal that an axis gives: turned to point from A to B. *)
NormalAlong(a, b, axis) ==
  IF Dot(axis, Sub(position[b], position[a])) < 0 THEN Negate(axis) ELSE axis

(* A turn of the loop that keeps the overlap of the axis tested last. *)
AxisStepKeepingLast(a, b, axis, result, best) ==
  IF result.separated THEN [best EXCEPT !.separated = TRUE]
  ELSE [separated |-> FALSE, infinite |-> FALSE,
        minOverlap |-> result.overlap, collisionNormal |-> NormalAlong(a, b, axis)]

(* One turn of the loop of findCollisionInfo, given the result of the test *)
(* of the axis: `best` holds minOverlap and collisionNormal; best.infinite *)
(* says minOverlap is still Infinity; separated stands for `return null`.  *)
AxisStep(a, b, axis, result, best) ==
  IF result.separated THEN [best EXCEPT !.separated = TRUE]
  ELSE IF best.infinite \/ result.overlap < best.minOverlap
       THEN [separated |-> FALSE, infinite |-> FALSE,
             minOverlap |-> result.overlap, collisionNormal |-> NormalAlong(a, b, axis)]
       ELSE best

(* The loop of findCollisionInfo over testAxes from index i on. *)
RECURSIVE AxisLoop(_, _, _, _, _)
AxisLoop(a, b, axes, i, best) ==
  IF i > Len(axes) \/ best.separated THEN best
  ELSE AxisLoop(a, b, axes, i + 1,
                AxisStep(a, b, axes[i], testSeparatingAxis(a, b, axes[i]), best))

(* The CollisionInfo built after the loop. *)
CollisionInfoOf(a, b, found) ==
  IF found.separated THEN NoCollision
  ELSE [isNull |-> FALSE, atomA |-> a, atomB |-> b,
        contactPoint |-> ScaleDiv(Add(position[a], position[b]), 1, 2),
        contactNormal |-> found.collisionNormal,
        penetrationDepth |-> found.minOverlap,
        isMatchingFaces |-> IF form_molecules THEN areMatchingFacesColliding(a, b) ELSE FALSE]

(* findCollisionInfo: NoCollision, or the CollisionInfo of the pair. *)
findCollisionInfo(a, b) ==
  CollisionInfoOf(a, b, AxisLoop(a, b, testAxes(a, b), 1,
                                 [separated |-> FALSE, infinite |-> TRUE,
                                  minOverlap |-> 0, collisionNormal |-> Zero3]))

----------------------------------------------------------------------------
(* Bodies: an atom or, for an atom in a molecule, its molecule             *)
(* (resolveCollision: `atomA.is_in_molecule ? atomA.molecule : atomA`).    *)

(* A narrow phase that takes the atom itself as the body, owned or not. *)
BodyOfAtomOnly(k) == [isMolecule |-> FALSE, ref |-> k]

BodyOf(k) ==
  IF is_in_molecule[k] THEN [isMolecule |-> TRUE, ref |-> molecule[k]]
  ELSE [isMolecule |-> FALSE, ref |-> k]

(* Molecule.getMass / Atom.getMass. *)
MoleculeMass(m) == Len(molObj[m].atoms) * atom_mass

getMass(body) == IF body.isMolecule THEN MoleculeMass(body.ref) ELSE atom_mass

(* The atoms attached under molecule m in the scene graph.  attach() and   *)
(* setMolecule() are always called together, so these are the atoms whose  *)
(* molecule field is m.                                                    *)
Children(m) == {k \in Keys : is_in_molecule[k] /\ molecule[k] = m}

(* The atoms that move when the position of a body changes. *)
AtomsOf(body) == IF body.isMolecule THEN Children(body.ref) ELSE {body.ref}

Moved(pos, body, delta) ==
  [k \in Keys |-> IF k \in AtomsOf(body) THEN Add(pos[k], delta) ELSE pos[k]]

BodyVelocity(body) ==
  IF body.isMolecule THEN molObj[body.ref].velocity ELSE velocity[body.ref]

(* objA.velocity.add(delta), on the atoms' velocities. *)
AtomVelocityAdd(vel, body, delta) ==
  IF body.isMolecule THEN vel ELSE [vel EXCEPT ![body.ref] = Add(@, delta)]

(* objA.velocity.add(delta), on the molecules' velocities. *)
MoleculeVelocityAdd(objs, body, delta) ==
  IF body.isMolecule THEN [objs EXCEPT ![body.ref].velocity = Add(@, delta)] ELSE objs

(* A linear impulse that pushes both bodies the same way. *)
applyImpulseSameWay(objA, objB, deltaA, deltaB) ==
  [velocity |-> AtomVelocityAdd(AtomVelocityAdd(velocity, objA, deltaA), objB, Negate(deltaB)),
   molObj |-> MoleculeVelocityAdd(MoleculeVelocityAdd(molObj, objA, deltaA), objB,
                                  Negate(deltaB))]

(* The linear impulse: impulse / massA onto A, -impulse / massB onto B. *)
applyImpulse(objA, objB, deltaA, deltaB) ==
  [velocity |-> AtomVelocityAdd(AtomVelocityAdd(velocity, objA, deltaA), objB, deltaB),
   molObj |-> MoleculeVelocityAdd(MoleculeVelocityAdd(molObj, objA, deltaA), objB, deltaB)]

(* impulse = contactNormal * (-(1 + e) * normalVelocity / (1/massA + 1/massB)) *)
impulseOf(contactNormal, normalVelocity, massA, massB) ==
  Scale(contactNormal,
        (-(1 + restitution_coefficient) * normalVelocity * massA * massB) \div (massA + massB))

(* A second half that applies the impulse whatever the sign of             *)
(* normalVelocity.                                                         *)
resolveVelocityUnguarded(contactNormal, objA, objB, massA, massB, normalVelocity, impulse) ==
  applyImpulse(objA, objB, ScaleDiv(impulse, 1, massA), Negate(ScaleDiv(impulse, 1, massB)))

(* The second half of resolveCollision: nothing if the bodies move apart   *)
(* (normalVelocity < 0), the impulse otherwise.                            *)
resolveVelocity(contactNormal, objA, objB, massA, massB, normalVelocity, impulse) ==
  IF normalVelocity < 0
  THEN [velocity |-> velocity, molObj |-> molObj]
  ELSE applyImpulse(objA, objB, ScaleDiv(impulse, 1, massA),
                    Negate(ScaleDiv(impulse, 1, massB)))

(* A positional correction that gives each body its own mass fraction. *)
separateByOwnMass(info, objA, objB, massA, massB) ==
  Moved(Moved(position, objA,
              Negate(Scale(info.contactNormal,
                           (info.penetrationDepth * massA) \div (massA + massB)))),
        objB, Scale(info.contactNormal, (info.penetrationDepth * massB) \div (massA + massB)))

(* The first half of resolveCollision: the bodies are pushed apart along   *)
(* the normal, the heavier one less.                                       *)
separate(info, objA, objB, massA, massB) ==
  Moved(Moved(position, objA,
              Negate(Scale(info.contactNormal,
                           (info.penetrationDepth * massB) \div (massA + massB)))),
        objB, Scale(info.contactNormal, (info.penetrationDepth * massA) \div (massA + massB)))

resolveBodies(info, objA, objB, massA, massB, normalVelocity) ==
  [position |-> separate(info, objA, objB, massA, massB),
   moving |-> resolveVelocity(info.contactNormal, objA, objB, massA, massB, normalVelocity,
                              impulseOf(info.contactNormal, normalVelocity, massA, massB))]

(* The velocity of A relative to B along the normal. *)
normalVelocityOf(info, objA, objB) ==
  Dot(Sub(BodyVelocity(objA), BodyVelocity(objB)), info.contactNormal)

resolvePair(info, objA, objB) ==
  resolveBodies(info, objA, objB, getMass(objA), getMass(objB),
                normalVelocityOf(info, objA, objB))

(* resolveCollision, its parts that do not involve the angular state:      *)
(* [position, moving: [velocity, molObj]] after it.  Left out: the lever   *)
(* arms rA, rB and the angular terms of the contact velocity and of the    *)
(* denominator, and the angular impulse.                                   *)
resolveCollision(info) == resolvePair(info, BodyOf(info.atomA), BodyOf(info.atomB))

(* A testAndResolveCollision that reports every contact as sticking. *)
ResolvedPairAllSticking(collisionInfo) ==
  IF ~collisionInfo.isNull
  THEN [isColliding |-> TRUE, isSticking |-> TRUE, info |-> collisionInfo,
        after |-> resolveCollision(collisionInfo)]
  ELSE [isColliding |-> FALSE, isSticking |-> FALSE, info |-> collisionInfo,
        after |-> [position |-> position,
                   moving |-> [velocity |-> velocity, molObj |-> molObj]]]

(* The result of testAndResolveCollision, given what findCollisionInfo     *)
(* returned, and the state after it.                                       *)
ResolvedPair(collisionInfo) ==
  IF ~collisionInfo.isNull
  THEN [isColliding |-> TRUE,
        isSticking |-> collisionInfo.isMatchingFaces /\ form_molecules,
        info |-> collisionInfo,
        after |-> resolveCollision(collisionInfo)]
  ELSE [isColliding |-> FALSE, isSticking |-> FALSE,
        info |-> collisionInfo,
        after |-> [position |-> position,
                   moving |-> [velocity |-> velocity, molObj |-> molObj]]]

(* testAndResolveCollision: the event of the pair and the state after it. *)
testAndResolveCollision(a, b) == ResolvedPair(findCollisionInfo(a, b))

----------------------------------------------------------------------------
(* Molecule (molecule.ts).  The operations work on the part of the state   *)
(* they touch, a record st of molObj, velocity, molecule_id,               *)
(* is_in_molecule and molecule.                                            *)

(* Atom.setMolecule, with the molecule_id assignment that precedes it. *)
setMolecule(st, k, m) ==
  [st EXCEPT !.molecule_id[k] = m, !.molecule[k] = m, !.is_in_molecule[k] = TRUE]

(* An addAtom that gives the molecule the velocity of the atom it takes. *)
addAtomTakingVelocity(st, m, k) ==
  setMolecule([st EXCEPT !.molObj[m].atoms = Append(@, k),
                         !.molObj[m].velocity = st.velocity[k],
                         !.velocity[k] = Zero3], k, m)

(* An addAtom that leaves the atom its velocity. *)
addAtomKeepingVelocity(st, m, k) ==
  setMolecule([st EXCEPT !.molObj[m].atoms = Append(@, k),
                         !.molObj[m].velocity =
                            ScaleDiv(Add(Scale(@, Len(st.molObj[m].atoms) * atom_mass),
                                         Scale(st.velocity[k], atom_mass)),
                                     1, (Len(st.molObj[m].atoms) + 1) * atom_mass)], k, m)

(* Molecule.addAtom. *)
addAtom(st, m, k) ==
  LET this == st.molObj[m]
      initialMass == Len(this.atoms) * atom_mass
      atoms == Append(this.atoms, k)
      currentMass == Len(atoms) * atom_mass
      initialMomentum == Scale(this.velocity, initialMass)
      newAtomMomentum == Scale(st.velocity[k], atom_mass)
      newVelocity == ScaleDiv(Add(initialMomentum, newAtomMomentum), 1, currentMass)
      st1 == [st EXCEPT !.molObj[m].atoms = atoms, !.molObj[m].velocity = newVelocity]
      st2 == setMolecule(st1, k, m)
  IN [st2 EXCEPT !.velocity[k] = Zero3]

(* new Molecule(atom1, atom2), the object getting id m. *)
newMolecule(st, m, atom1, atom2) ==
  LET fresh == [atoms |-> <<>>, velocity |-> Zero3, boundingBox |-> EmptyBox]
      st0 == [st EXCEPT !.molObj = [i \in DOMAIN st.molObj \cup {m} |->
                                      IF i = m THEN fresh ELSE st.molObj[i]]]
  IN addAtom(addAtom(st0, m, atom1), m, atom2)

(* The body of other.atoms.forEach in addMolecule, for the atoms from      *)
(* index i on of the list as it was when forEach started.                  *)
RECURSIVE Reparent(_, _, _, _)
Reparent(st, m, list, i) ==
  IF i > Len(list) THEN st
  ELSE Reparent(setMolecule([st EXCEPT !.molObj[m].atoms = Append(@, list[i])], list[i], m),
                m, list, i + 1)

(* A merge that lists the atoms of o under m and leaves their fields alone. *)
addMoleculeListOnly(st, m, o) ==
  [st EXCEPT !.molObj[m].atoms = @ \o st.molObj[o].atoms]

(* Molecule.addMolecule: this = m, other = o. *)
addMolecule(st, m, o) ==
  LET m1 == Len(st.molObj[m].atoms) * atom_mass
      m2 == Len(st.molObj[o].atoms) * atom_mass
      p1 == Scale(st.molObj[m].velocity, m1)
      p2 == Scale(st.molObj[o].velocity, m2)
      newVelocity == ScaleDiv(Add(p1, p2), 1, m1 + m2)
      st1 == [st EXCEPT !.molObj[m].velocity = newVelocity]
  IN Reparent(st1, m, st.molObj[o].atoms, 1)

(* Box3.expandByObject over the atoms attached under molecule m. *)
BoxOfAtoms(pos, ks) ==
  IF ks = {} THEN EmptyBox
  ELSE LET lo(axis) == CHOOSE v \in {pos[k][axis] - HalfSize : k \in ks} :
                         \A k \in ks : v <= pos[k][axis] - HalfSize
           hi(axis) == CHOOSE v \in {pos[k][axis] + HalfSize : k \in ks} :
                         \A k \in ks : v >= pos[k][axis] + HalfSize
       IN [empty |-> FALSE, min |-> <<lo(1), lo(2), lo(3)>>, max |-> <<hi(1), hi(2), hi(3)>>]

(* `if (velocity.length() > 1) velocity.multiplyScalar(0.99)`. *)
Damped(v) == IF LengthSq(v) > 1 THEN ScaleDiv(v, 99, 100) ELSE v

(* Twice Box3.getCenter: (0, 0, 0) for an empty box. *)
TwiceCenter(box) == IF box.empty THEN Zero3 ELSE Add(box.min, box.max)

(* One component of the wall bounce of Molecule.update. *)
MoleculeBounce(box, v, axis) ==
  LET c1 == IF ~box.empty /\ 2 * box.max[axis] > simulation_size /\ v[axis] > 0
            THEN -v[axis] ELSE v[axis]
  IN IF ~box.empty /\ 2 * box.min[axis] < -simulation_size /\ c1 < 0 THEN -c1 ELSE c1

(* center.normalize().multiplyScalar(-0.1), rounded down to the unit: the  *)
(* components are within 0.1 of zero.                                      *)
Leash(center2) ==
  << IF center2[1] > 0 THEN -1 ELSE 0,
     IF center2[2] > 0 THEN -1 ELSE 0,
     IF center2[3] > 0 THEN -1 ELSE 0 >>

(* Molecule.update for molecule m, given the positions so far: the         *)
(* positions and the Molecule object after it.  The three bounces on the   *)
(* maxima come before the three on the minima in the code; per axis the    *)
(* order is the same.  pivotGroup.rotateOnAxis is left out.                *)
MoleculeUpdate(pos, obj, m) ==
  LET moved == [k \in Keys |-> IF k \in Children(m) THEN Add(pos[k], obj.velocity) ELSE pos[k]]
      box == BoxOfAtoms(moved, Children(m))
      v1 == Damped(obj.velocity)
      v2 == << MoleculeBounce(box, v1, 1), MoleculeBounce(box, v1, 2), MoleculeBounce(box, v1, 3) >>
      center2 == TwiceCenter(box)
      \* center.length() > simulation_size * 1.1
      v3 == IF 100 * LengthSq(center2) > 4 * 121 * simulation_size * simulation_size
            THEN Add(v2, Leash(center2)) ELSE v2
  IN [position |-> moved, obj |-> [obj EXCEPT !.velocity = v3, !.boundingBox = box]]

(* Atom.update for atom k: its position and velocity after it.             *)
(* rotateOnAxis is left out.                                               *)
AtomBounce(p, v, axis) ==
  LET c1 == IF 2 * (p[axis] + HalfSize) > simulation_size THEN -Abs(v[axis]) ELSE v[axis]
  IN IF 2 * (p[axis] - HalfSize) < -simulation_size THEN Abs(c1) ELSE c1

AtomUpdate(k) ==
  LET p == IF molecule_id[k] = -1 THEN Add(position[k], velocity[k]) ELSE position[k]
      v1 == Damped(velocity[k])
  IN [position |-> p,
      velocity |-> << AtomBounce(p, v1, 1), AtomBounce(p, v1, 2), AtomBounce(p, v1, 3) >>]

(* The molecule updates of one tick, in the order of Object.values: the    *)
(* ids in `todo`, ascending.                                               *)
RECURSIVE UpdateMolecules(_, _, _)
UpdateMolecules(pos, objs, todo) ==
  IF todo = {} THEN [position |-> pos, molObj |-> objs]
  ELSE LET m == CHOOSE i \in todo : \A j \in todo : i <= j
           r == MoleculeUpdate(pos, objs[m], m)
       IN UpdateMolecules(r.position, [objs EXCEPT ![m] = r.obj], todo \ {m})

----------------------------------------------------------------------------
(* Main (index.ts). *)

(* The membership part of the state, as the molecule operations take it. *)
MolState ==
  [molObj |-> molObj, velocity |-> velocity, molecule_id |-> molecule_id,
   is_in_molecule |-> is_in_molecule, molecule |-> molecule]

(* A test that looks at the second atom only. *)
SecondFree(atom1, atom2) == ~is_in_molecule[atom2]

(* The first test of the sticking branch:                                  *)
(*   !atom2.is_in_molecule && !atom1.is_in_molecule                        *)
BothFree(atom1, atom2) == ~is_in_molecule[atom2] /\ ~is_in_molecule[atom1]

(* The choice of the surviving molecule: [survivor, other]. *)
MergeOrder(mol1, mol2) ==
  IF MoleculeMass(mol1) > MoleculeMass(mol2)
  THEN [survivor |-> mol1, other |-> mol2]
  ELSE [survivor |-> mol2, other |-> mol1]

(* The body of `if (collision.isSticking)` for the pair: what is done, and *)
(* the membership state and the table after it.                            *)
handleSticking(atom1, atom2) ==
  IF BothFree(atom1, atom2)
  THEN [op |-> "create", survivor |-> nextId, other |-> Undefined,
        st |-> newMolecule(MolState, nextId, atom1, atom2),
        molecules |-> molecules \cup {nextId}, nextId |-> nextId + 1]
  ELSE IF is_in_molecule[atom1] /\ ~is_in_molecule[atom2]
  THEN [op |-> "addAtom", survivor |-> molecule[atom1], other |-> Undefined,
        st |-> addAtom(MolState, molecule[atom1], atom2),
        molecules |-> molecules, nextId |-> nextId]
  ELSE IF is_in_molecule[atom2] /\ ~is_in_molecule[atom1]
  THEN [op |-> "addAtom", survivor |-> molecule[atom2], other |-> Undefined,
        st |-> addAtom(MolState, molecule[atom2], atom1),
        molecules |-> molecules, nextId |-> nextId]
  ELSE LET order == MergeOrder(molecule[atom1], molecule[atom2])
       IN [op |-> "addMolecule", survivor |-> order.survivor, other |-> order.other,
           st |-> addMolecule(MolState, order.survivor, order.other),
           molecules |-> molecules, nextId |-> nextId]

NoBody == [isMolecule |-> FALSE, ref |-> -1]

(* The molecule that owns atom k, Undefined for a free atom. *)
Owner(k) == IF is_in_molecule[k] THEN molecule[k] ELSE Undefined

NoHistory ==
  [op |-> "none", a |-> -1, b |-> -1, survivor |-> Undefined, other |-> Undefined,
   otherAtoms |-> <<>>, freeA |-> TRUE, freeB |-> TRUE, objA |-> NoBody, objB |-> NoBody,
   tested |-> 0, ownerAtQuery |-> [k \in Keys |-> Undefined], retired |-> {},
   updated |-> {}, info |-> NoCollision, reverse |-> NoCollision, normalVelocity |-> 0,
   returned |-> EmptyBox, recomputed |-> FALSE, calls |-> 0]

(* The two update loops at the head of animate. *)
Integrate ==
  /\ pc = "idle"
  /\ tick < MaxTicks
  /\ LET afterAtoms == [k \in Keys |-> AtomUpdate(k)]
         pos1 == [k \in Keys |-> afterAtoms[k].position]
         r == UpdateMolecules(pos1, molObj, molecules)
     IN /\ position' = r.position
        /\ velocity' = [k \in Keys |-> afterAtoms[k].velocity]
        /\ molObj' = r.molObj
        /\ _boundingBox' = [k \in Keys |-> BoxAt(pos1[k])]
        /\ _boundingBoxDirty' = [k \in Keys |-> FALSE]
  /\ pc' = "broad"
  /\ tick' = tick + 1
  /\ history' = [history EXCEPT !.op = "integrate", !.updated = molecules]
  /\ UNCHANGED _grid
  /\ UNCHANGED << scenario, _atoms >>
  /\ UNCHANGED << rotation_axis, rotation_speed, contact >>
  /\ UNCHANGED << orientation, molecule_id, is_in_molecule, molecule, molecules, nextId,
                  form_molecules, broadPhaseCollisions, collisions, idx, sortedAxes, query >>

(* detectCollisions, first statement: the broad-phase query. *)
BroadPhase ==
  /\ pc = "broad"
  /\ broadPhaseCollisions' = detectSpacePartitionCollisions
  /\ _grid' = fillGrid(_grid)
  /\ UNCHANGED << scenario, _atoms >>
  /\ UNCHANGED << rotation_axis, rotation_speed, contact >>
  /\ collisions' = <<>>
  /\ idx' = 1
  /\ pc' = "narrow"
  /\ query' = "grid"
  /\ history' = [history EXCEPT !.op = "broad", !.tested = 0,
                                !.ownerAtQuery = [k \in Keys |-> Owner(k)]]
  /\ UNCHANGED << _boundingBox, _boundingBoxDirty >>
  /\ UNCHANGED << position, orientation, velocity, molecule_id, is_in_molecule, molecule,
                  molObj, molecules, nextId, form_molecules, tick, sortedAxes >>

(* The effect of one turn of the loop of detectCollisions: r is what      *)
(* testAndResolveCollision returned for the pair.                          *)
Narrowed(atomA, atomB, r) ==
  /\ position' = r.after.position
  /\ velocity' = r.after.moving.velocity
  /\ molObj' = r.after.moving.molObj
  /\ collisions' = IF r.isColliding
                   THEN Append(collisions, [pair |-> <<atomA, atomB>>,
                                            isSticking |-> r.isSticking])
                   ELSE collisions
  /\ history' = [history EXCEPT !.op = IF r.isColliding THEN "resolve" ELSE "separate",
                                !.a = atomA, !.b = atomB,
                                !.objA = BodyOf(atomA), !.objB = BodyOf(atomB),
                                !.tested = idx, !.info = r.info,
                                !.normalVelocity =
                                   IF r.isColliding
                                   THEN normalVelocityOf(r.info, BodyOf(atomA), BodyOf(atomB))
                                   ELSE 0]

(* detectCollisions, one turn of the loop over broadPhaseCollisions. *)
NarrowStep ==
  /\ pc = "narrow"
  /\ idx <= Len(broadPhaseCollisions)
  /\ Narrowed(broadPhaseCollisions[idx][1], broadPhaseCollisions[idx][2],
              testAndResolveCollision(broadPhaseCollisions[idx][1],
                                      broadPhaseCollisions[idx][2]))
  /\ idx' = idx + 1
  /\ UNCHANGED << _grid, _boundingBox, _boundingBoxDirty >>
  /\ UNCHANGED << scenario, _atoms >>
  /\ UNCHANGED << rotation_axis, rotation_speed, contact >>
  /\ UNCHANGED << orientation, molecule_id, is_in_molecule, molecule, molecules, nextId,
                  form_molecules, pc, broadPhaseCollisions, tick, sortedAxes, query >>

(* detectCollisions returns; animate starts its loop over the collisions. *)
NarrowDone ==
  /\ pc = "narrow"
  /\ idx > Len(broadPhaseCollisions)
  /\ pc' = "stick"
  /\ idx' = 1
  /\ history' = [history EXCEPT !.op = "detected"]
  /\ UNCHANGED << _grid, _boundingBox, _boundingBoxDirty >>
  /\ UNCHANGED << scenario, _atoms >>
  /\ UNCHANGED << rotation_axis, rotation_speed, contact >>
  /\ UNCHANGED << position, orientation, velocity, molecule_id, is_in_molecule, molecule,
                  molObj, molecules, nextId, form_molecules, broadPhaseCollisions,
                  collisions, tick, sortedAxes, query >>

(* animate, one turn of the loop over the collisions. *)
StickStep ==
  /\ pc = "stick"
  /\ idx <= Len(collisions)
  /\ LET atom1 == collisions[idx].pair[1]
         atom2 == collisions[idx].pair[2]
         r == handleSticking(atom1, atom2)
     IN IF collisions[idx].isSticking
        THEN /\ molObj' = r.st.molObj
             /\ velocity' = r.st.velocity
             /\ molecule_id' = r.st.molecule_id
             /\ is_in_molecule' = r.st.is_in_molecule
             /\ molecule' = r.st.molecule
             /\ molecules' = r.molecules
             /\ nextId' = r.nextId
             /\ history' = [history EXCEPT
                  !.op = r.op, !.a = atom1, !.b = atom2,
                  !.survivor = r.survivor, !.other = r.other,
                  !.otherAtoms = IF r.op = "addMolecule" THEN molObj[r.other].atoms ELSE <<>>,
                  !.freeA = ~is_in_molecule[atom1], !.freeB = ~is_in_molecule[atom2],
                  !.retired = IF r.op = "addMolecule" /\ r.other # r.survivor
                              THEN @ \cup {r.other} ELSE @]
        ELSE /\ history' = [history EXCEPT !.op = "bounce", !.a = atom1, !.b = atom2]
             /\ UNCHANGED << molObj, velocity, molecule_id, is_in_molecule, molecule,
                             molecules, nextId >>
  /\ idx' = idx + 1
  /\ UNCHANGED << _grid, _boundingBox, _boundingBoxDirty >>
  /\ UNCHANGED << scenario, _atoms >>
  /\ UNCHANGED << rotation_axis, rotation_speed, contact >>
  /\ UNCHANGED << position, orientation, form_molecules, pc, broadPhaseCollisions,
                  collisions, tick, sortedAxes, query >>

(* The loop over the collisions is over; the rest of animate only sets     *)
(* materials and last_collision, which are not represented.                *)
EndTick ==
  /\ pc = "stick"
  /\ idx > Len(collisions)
  /\ pc' = "idle"
  /\ history' = [history EXCEPT !.op = "rendered"]
  /\ UNCHANGED << _grid, _boundingBox, _boundingBoxDirty >>
  /\ UNCHANGED << scenario, _atoms >>
  /\ UNCHANGED << rotation_axis, rotation_speed, contact >>
  /\ UNCHANGED << position, orientation, velocity, molecule_id, is_in_molecule, molecule,
                  molObj, molecules, nextId, form_molecules, broadPhaseCollisions,
                  collisions, idx, tick, sortedAxes, query >>

(* The 'Form Molecules' checkbox of the GUI, between two frames. *)
ToggleFormMolecules ==
  /\ pc = "idle"
  /\ form_molecules' = ~form_molecules
  /\ history' = [history EXCEPT !.op = "toggle"]
  /\ UNCHANGED << _grid, _boundingBox, _boundingBoxDirty >>
  /\ UNCHANGED << scenario, _atoms >>
  /\ UNCHANGED << rotation_axis, rotation_speed, contact >>
  /\ UNCHANGED << position, orientation, velocity, molecule_id, is_in_molecule, molecule,
                  molObj, molecules, nextId, pc, broadPhaseCollisions, collisions, idx,
                  tick, sortedAxes, query >>

(* Atom's constructor places every atom at random; the model draws the     *)
(* placement from a few sites at which atoms coincide, overlap or are      *)
(* apart, two orientations and two velocities.  Atom 0 is the reference.   *)
Sites == {<<0, 0, 0>>, <<2, 0, 0>>, <<0, 3, 0>>}

InitOrientations == {Identity, RotZ}

InitVelocities == {Zero3, <<1, 0, 0>>}

Init ==
  /\ position \in [Keys -> Sites]
  /\ position[0] = <<0, 0, 0>>
  /\ orientation \in [Keys -> InitOrientations]
  /\ orientation[0] = Identity
  /\ velocity \in [Keys -> InitVelocities]
  /\ \A k \in Keys : k # 0 => velocity[k] = Zero3
  /\ molecule_id = [k \in Keys |-> -1]
  /\ is_in_molecule = [k \in Keys |-> FALSE]
  /\ molecule = [k \in Keys |-> Undefined]
  /\ molObj = << >>
  /\ molecules = {}
  /\ nextId = 1
  /\ form_molecules = FALSE
  /\ pc = "idle"
  /\ broadPhaseCollisions = <<>>
  /\ collisions = <<>>
  /\ idx = 1
  /\ tick = 0
  /\ sortedAxes = [axis \in 1 .. 3 |-> KeySeq]
  /\ query = "none"
  /\ _grid = [cell \in Cells |-> <<>>]
  /\ scenario = 0
  /\ _atoms = createAtoms(0)
  /\ rotation_axis = NoAxes
  /\ rotation_speed = NoSpeeds
  /\ contact = NoContact
  /\ _boundingBox = [k \in Keys |-> EmptyBox]
  /\ _boundingBoxDirty = [k \in Keys |-> TRUE]
  /\ history = NoHistory

Next ==
  \/ Integrate
  \/ BroadPhase
  \/ NarrowStep
  \/ NarrowDone
  \/ StickStep
  \/ EndTick
  \/ ToggleFormMolecules

Spec == Init /\ [][Next]_vars

----------------------------------------------------------------------------
(* The broad phase on its own: one query of either strategy on a placement *)
(* of the atoms and a membership as the molecule operations leave it.      *)

(* Coordinates on the x axis: below the volume (clamped to cell 0), in     *)
(* cell 0, in cells 1 and 2, above the volume (clamped to the last cell).  *)
BroadCoords == {-8, -4, 0, 3, 8}

BroadSites == {<<x, 0, 0>> : x \in BroadCoords}

MaxMolecules == number_of_atoms \div 2

MembersOf(own, m) == {k \in Keys : own[k] = m}

(* The ways the atoms are owned: 0 for a free atom; a molecule has at      *)
(* least two atoms, and molecule ids are handed out in order.              *)
Ownerships ==
  {own \in [Keys -> 0 .. MaxMolecules] :
     \A m \in 1 .. MaxMolecules :
       /\ Cardinality(MembersOf(own, m)) # 1
       /\ (m > 1 /\ MembersOf(own, m) # {}) =>
            \E k \in MembersOf(own, m - 1) : \A j \in MembersOf(own, m) : k < j}

InitBroad ==
  /\ position \in [Keys -> BroadSites]
  /\ orientation = [k \in Keys |-> Identity]
  /\ velocity = [k \in Keys |-> Zero3]
  /\ \E own \in Ownerships :
       /\ molecule = own
       /\ molecule_id = [k \in Keys |-> IF own[k] = Undefined THEN -1 ELSE own[k]]
       /\ is_in_molecule = [k \in Keys |-> own[k] # Undefined]
       /\ molecules = {m \in 1 .. MaxMolecules : MembersOf(own, m) # {}}
       /\ molObj = [m \in {n \in 1 .. MaxMolecules : MembersOf(own, n) # {}} |->
                      [atoms |-> SelectSeq(KeySeq, LAMBDA k : own[k] = m),
                       velocity |-> Zero3, boundingBox |-> EmptyBox]]
       /\ nextId = 1 + Cardinality({m \in 1 .. MaxMolecules : MembersOf(own, m) # {}})
  /\ form_molecules = TRUE
  /\ pc = "input"
  /\ broadPhaseCollisions = <<>>
  /\ collisions = <<>>
  /\ idx = 1
  /\ tick = 0
  /\ sortedAxes = [axis \in 1 .. 3 |-> KeySeq]
  /\ query = "none"
  /\ _grid = [cell \in Cells |-> <<>>]
  /\ scenario = 0
  /\ _atoms = createAtoms(0)
  /\ rotation_axis = NoAxes
  /\ rotation_speed = NoSpeeds
  /\ contact = NoContact
  /\ _boundingBox = [k \in Keys |-> EmptyBox]
  /\ _boundingBoxDirty = [k \in Keys |-> TRUE]
  /\ history = NoHistory

(* spacePartition.detectSpacePartitionCollisions() *)
QueryGrid ==
  /\ pc = "input"
  /\ broadPhaseCollisions' = detectSpacePartitionCollisions
  /\ _grid' = fillGrid(_grid)
  /\ UNCHANGED << scenario, _atoms >>
  /\ UNCHANGED << rotation_axis, rotation_speed, contact >>
  /\ query' = "grid"
  /\ pc' = "queried"
  /\ history' = [history EXCEPT !.op = "broad", !.ownerAtQuery = [k \in Keys |-> Owner(k)]]
  /\ UNCHANGED << _boundingBox, _boundingBoxDirty >>
  /\ UNCHANGED << position, orientation, velocity, molecule_id, is_in_molecule, molecule,
                  molObj, molecules, nextId, form_molecules, collisions, idx, tick,
                  sortedAxes >>

(* The arrays of the three axes after sortAxis. *)
SortedAxes == [axis \in 1 .. 3 |-> sortAxis(sortedAxes[axis], axis)]

(* sweepAndPrune.detectSAPCollisions() *)
QuerySAP ==
  /\ pc = "input"
  /\ sortedAxes' = SortedAxes
  /\ _boundingBox' = [k \in Keys |-> getBoundingBox(k)]
  /\ _boundingBoxDirty' = [k \in Keys |-> FALSE]
  /\ broadPhaseCollisions' = detectSAPCollisions(SortedAxes)
  /\ query' = "sap"
  /\ pc' = "queried"
  /\ history' = [history EXCEPT !.op = "broad", !.ownerAtQuery = [k \in Keys |-> Owner(k)]]
  /\ UNCHANGED _grid
  /\ UNCHANGED << scenario, _atoms >>
  /\ UNCHANGED << rotation_axis, rotation_speed, contact >>
  /\ UNCHANGED << position, orientation, velocity, molecule_id, is_in_molecule, molecule,
                  molObj, molecules, nextId, form_molecules, collisions, idx, tick >>

NextBroad ==
  \/ QueryGrid
  \/ QuerySAP

SpecBroad == InitBroad /\ [][NextBroad]_vars

(* The grid query for an atom anywhere, inside the simulation volume, on   *)
(* its faces or outside it.                                                *)
AddressCoords == {-20, -7, -6, -2, 0, 5, 6, 10, 20}

AddressSites == {<<x, y, z>> : x, y, z \in AddressCoords}

InitAddress ==
  /\ \E site \in AddressSites :
       position = [k \in Keys |-> IF k = 0 THEN site ELSE Zero3]
  /\ orientation = [k \in Keys |-> Identity]
  /\ velocity = [k \in Keys |-> Zero3]
  /\ molecule_id = [k \in Keys |-> -1]
  /\ is_in_molecule = [k \in Keys |-> FALSE]
  /\ molecule = [k \in Keys |-> Undefined]
  /\ molObj = << >>
  /\ molecules = {}
  /\ nextId = 1
  /\ form_molecules = FALSE
  /\ pc = "input"
  /\ broadPhaseCollisions = <<>>
  /\ collisions = <<>>
  /\ idx = 1
  /\ tick = 0
  /\ sortedAxes = [axis \in 1 .. 3 |-> KeySeq]
  /\ query = "none"
  /\ _grid = [cell \in Cells |-> <<>>]
  /\ scenario = 0
  /\ _atoms = createAtoms(0)
  /\ rotation_axis = NoAxes
  /\ rotation_speed = NoSpeeds
  /\ contact = NoContact
  /\ _boundingBox = [k \in Keys |-> EmptyBox]
  /\ _boundingBoxDirty = [k \in Keys |-> TRUE]
  /\ history = NoHistory

NextAddress == QueryGrid

SpecAddress == InitAddress /\ [][NextAddress]_vars

----------------------------------------------------------------------------
(* The narrow-phase test on its own: findCollisionInfo on two atoms in a   *)
(* drawn pose, called with the atoms in either order.                      *)

(* Offsets of atom 1 from atom 0 on each axis: apart (5), touching (4),    *)
(* overlapping, and equal.                                                 *)
SatCoords == {-5, -4, -1, 0, 2, 5}

SatSites == {<<x, y, z>> : x, y, z \in SatCoords}

SatOrientations == {Identity, RotZ, RotZ90, RotX90}

InitSAT ==
  /\ \E site \in SatSites :
       position = [k \in Keys |-> IF k = 1 THEN site ELSE Zero3]
  /\ \E o0, o1 \in SatOrientations :
       orientation = [k \in Keys |-> IF k = 0 THEN o0 ELSE IF k = 1 THEN o1 ELSE Identity]
  /\ velocity = [k \in Keys |-> Zero3]
  /\ molecule_id = [k \in Keys |-> -1]
  /\ is_in_molecule = [k \in Keys |-> FALSE]
  /\ molecule = [k \in Keys |-> Undefined]
  /\ molObj = << >>
  /\ molecules = {}
  /\ nextId = 1
  /\ form_molecules \in BOOLEAN
  /\ pc = "input"
  /\ broadPhaseCollisions = <<>>
  /\ collisions = <<>>
  /\ idx = 1
  /\ tick = 0
  /\ sortedAxes = [axis \in 1 .. 3 |-> KeySeq]
  /\ query = "none"
  /\ _grid = [cell \in Cells |-> <<>>]
  /\ scenario = 0
  /\ _atoms = createAtoms(0)
  /\ rotation_axis = NoAxes
  /\ rotation_speed = NoSpeeds
  /\ contact = NoContact
  /\ _boundingBox = [k \in Keys |-> EmptyBox]
  /\ _boundingBoxDirty = [k \in Keys |-> TRUE]
  /\ history = NoHistory

(* findCollisionInfo(atom 0, atom 1) and findCollisionInfo(atom 1, atom 0). *)
TestBothWays ==
  /\ pc = "input"
  /\ pc' = "tested"
  /\ history' = [history EXCEPT !.op = "test", !.a = 0, !.b = 1,
                                !.info = findCollisionInfo(0, 1),
                                !.reverse = findCollisionInfo(1, 0)]
  /\ UNCHANGED << _grid, _boundingBox, _boundingBoxDirty >>
  /\ UNCHANGED << scenario, _atoms >>
  /\ UNCHANGED << rotation_axis, rotation_speed, contact >>
  /\ UNCHANGED << position, orientation, velocity, molecule_id, is_in_molecule, molecule,
                  molObj, molecules, nextId, form_molecules, broadPhaseCollisions,
                  collisions, idx, tick, sortedAxes, query >>

NextSAT == TestBothWays

SpecSAT == InitSAT /\ [][NextSAT]_vars

----------------------------------------------------------------------------
(* Atom on its own: update and getBoundingBox called on the atoms in any   *)
(* order, from the state after construction.                               *)

BoxSites == {<<0, 0, 0>>, <<3, 0, 0>>, <<0, 4, 0>>}

BoxVelocities == {Zero3, <<1, 0, 0>>, <<0, -1, 0>>}

InitBox ==
  /\ \E p0, p1 \in BoxSites :
       position = [k \in Keys |-> IF k = 0 THEN p0 ELSE IF k = 1 THEN p1 ELSE Zero3]
  /\ orientation = [k \in Keys |-> Identity]
  /\ \E v0 \in BoxVelocities :
       velocity = [k \in Keys |-> IF k = 0 THEN v0 ELSE Zero3]
  /\ molecule_id = [k \in Keys |-> -1]
  /\ is_in_molecule = [k \in Keys |-> FALSE]
  /\ molecule = [k \in Keys |-> Undefined]
  /\ molObj = << >>
  /\ molecules = {}
  /\ nextId = 1
  /\ form_molecules = FALSE
  /\ pc = "atom"
  /\ broadPhaseCollisions = <<>>
  /\ collisions = <<>>
  /\ idx = 1
  /\ tick = 0
  /\ sortedAxes = [axis \in 1 .. 3 |-> KeySeq]
  /\ query = "none"
  /\ _grid = [cell \in Cells |-> <<>>]
  /\ scenario = 0
  /\ _atoms = createAtoms(0)
  /\ rotation_axis = NoAxes
  /\ rotation_speed = NoSpeeds
  /\ contact = NoContact
  /\ _boundingBox = [k \in Keys |-> EmptyBox]
  /\ _boundingBoxDirty = [k \in Keys |-> TRUE]
  /\ history = NoHistory

(* atom.update() on atom k. *)
Update(k) ==
  /\ pc = "atom"
  /\ position' = [position EXCEPT ![k] = AtomUpdate(k).position]
  /\ velocity' = [velocity EXCEPT ![k] = AtomUpdate(k).velocity]
  /\ _boundingBox' = [_boundingBox EXCEPT ![k] = BoxAt(AtomUpdate(k).position)]
  /\ _boundingBoxDirty' = [_boundingBoxDirty EXCEPT ![k] = FALSE]
  /\ history' = [history EXCEPT !.op = "update", !.a = k, !.calls = 0]
  /\ UNCHANGED _grid
  /\ UNCHANGED << scenario, _atoms >>
  /\ UNCHANGED << rotation_axis, rotation_speed, contact >>
  /\ UNCHANGED << orientation, molecule_id, is_in_molecule, molecule, molObj, molecules,
                  nextId, form_molecules, pc, broadPhaseCollisions, collisions, idx, tick,
                  sortedAxes, query >>

(* atom.getBoundingBox() on atom k. *)
GetBoundingBox(k) ==
  /\ pc = "atom"
  /\ (history.op = "getBoundingBox" /\ history.a = k) => history.calls < MaxCalls
  /\ _boundingBox' = [_boundingBox EXCEPT ![k] = getBoundingBox(k)]
  /\ _boundingBoxDirty' = [_boundingBoxDirty EXCEPT ![k] = FALSE]
  /\ history' = [history EXCEPT
       !.op = "getBoundingBox", !.a = k,
       !.returned = getBoundingBox(k), !.recomputed = Recomputes(k),
       !.calls = IF history.op = "getBoundingBox" /\ history.a = k THEN @ + 1 ELSE 1]
  /\ UNCHANGED _grid
  /\ UNCHANGED << scenario, _atoms >>
  /\ UNCHANGED << rotation_axis, rotation_speed, contact >>
  /\ UNCHANGED << position, orientation, velocity, molecule_id, is_in_molecule, molecule,
                  molObj, molecules, nextId, form_molecules, pc, broadPhaseCollisions,
                  collisions, idx, tick, sortedAxes, query >>

(* updateBoundingBox as if it had no test of the flag. *)
ThrowsNever(k) == FALSE

(* The test at the head of updateBoundingBox. *)
Throws(k) == ~_boundingBoxDirty[k]

(* atom.updateBoundingBox() on atom k, called on its own: it throws on a   *)
(* clean box, before any assignment; otherwise it recomputes the box and   *)
(* clears the flag.                                                        *)
UpdateBoundingBox(k) ==
  /\ pc = "atom"
  /\ IF Throws(k)
     THEN /\ history' = [history EXCEPT !.op = "throw", !.a = k]
          /\ UNCHANGED << _boundingBox, _boundingBoxDirty >>
     ELSE /\ _boundingBox' = [_boundingBox EXCEPT ![k] = updateBoundingBox(k)]
          /\ _boundingBoxDirty' = [_boundingBoxDirty EXCEPT ![k] = FALSE]
          /\ history' = [history EXCEPT !.op = "updateBoundingBox", !.a = k]
  /\ UNCHANGED _grid
  /\ UNCHANGED << scenario, _atoms >>
  /\ UNCHANGED << rotation_axis, rotation_speed, contact >>
  /\ UNCHANGED << position, orientation, velocity, molecule_id, is_in_molecule, molecule,
                  molObj, molecules, nextId, form_molecules, pc, broadPhaseCollisions,
                  collisions, idx, tick, sortedAxes, query >>

NextBox ==
  \/ \E k \in Keys : Update(k)
  \/ \E k \in Keys : GetBoundingBox(k)

SpecBox == InitBox /\ [][NextBox]_vars

(* The same atoms with updateBoundingBox called on its own between updates. *)
NextThrow ==
  \/ \E k \in Keys : Update(k)
  \/ \E k \in Keys : UpdateBoundingBox(k)

SpecThrow == InitBox /\ [][NextThrow]_vars

----------------------------------------------------------------------------
(* The angular part of resolveCollision on its own: the new rotation axis  *)
(* and speed of the two bodies, from their angular state and the angular   *)
(* impulses.  Speeds are in twelfths; vectors are on the lattice.          *)

(* Molecule.lerp_amt, the blend factor, as a fraction << num, den >>. *)
lerp_amt == <<1, 2>>

RECURSIVE GCD(_, _)
GCD(a, b) == IF b = 0 THEN a ELSE GCD(b, a % b)

(* Vector3.normalize: the direction of v (the zero vector stays zero). *)
normalize(v) ==
  LET g == GCD(GCD(Abs(v[1]), Abs(v[2])), Abs(v[3]))
  IN IF g = 0 THEN Zero3 ELSE ScaleDiv(v, 1, g)

(* Vector3.length, rounded down. *)
length(v) == CHOOSE r \in 0 .. LengthSq(v) : r * r <= LengthSq(v) /\ LengthSq(v) < (r + 1) * (r + 1)

(* lerp(a, b, t) = a + t * (b - a), rounded down. *)
lerp(a, b, t) == a + (((b - a) * t[1]) \div t[2])

(* slerp(startVec, endVec, t) for 0 < t < 1: startVec when the angle is 0; *)
(* normalising leaves the other direction when one of the two is the zero  *)
(* vector.                                                                 *)
slerp(startVec, endVec, t) ==
  IF startVec.from = endVec \/ endVec = Zero3 THEN startVec
  ELSE IF startVec.from = Zero3 THEN Pure(endVec)
  ELSE [from |-> startVec.from, to |-> endVec, t |-> t]

(* objX.rotation_axis.clone().multiplyScalar(objX.rotation_speed) *)
AngularVelocity(body) == Scale(rotation_axis[body].from, rotation_speed[body])

newAngularVelA == Add(AngularVelocity("A"), contact.angularImpulseA)

newAngularVelB == Add(AngularVelocity("B"), contact.angularImpulseB)

(* massA / totalMass * Molecule.lerp_amt *)
BlendFactor == << contact.massA * lerp_amt[1], (contact.massA + contact.massB) * lerp_amt[2] >>

(* "Update rotation axis and speed for A" *)
NewAxisA ==
  IF ~contact.isMoleculeA THEN Pure(normalize(newAngularVelA))
  ELSE slerp(rotation_axis["A"], normalize(newAngularVelA), BlendFactor)

NewSpeedA ==
  IF ~contact.isMoleculeA THEN length(newAngularVelA)
  ELSE lerp(rotation_speed["A"], length(newAngularVelA), BlendFactor)

(* "Update rotation axis and speed for B" *)
NewAxisB ==
  IF ~contact.isMoleculeB THEN Pure(normalize(newAngularVelB))
  ELSE slerp(rotation_axis["B"], normalize(newAngularVelB), BlendFactor)

NewSpeedB ==
  IF ~contact.isMoleculeB THEN length(newAngularVelB)
  ELSE lerp(rotation_speed["B"], length(newAngularVelA), BlendFactor)

(* The bodies of a contact: an atom of mass atom_mass, or a molecule of    *)
(* two or three atoms.                                                     *)
BodyMasses(isMolecule) == IF isMolecule THEN {2 * atom_mass, 3 * atom_mass} ELSE {atom_mass}

BlendAxes == {Zero3, <<1, 0, 0>>, <<0, 1, 0>>}

BlendSpeeds == {0, 12}

BlendImpulses == {Zero3, <<12, 0, 0>>, <<0, 24, 0>>, <<0, 0, -12>>}

InitBlend ==
  /\ position = [k \in Keys |-> Zero3]
  /\ orientation = [k \in Keys |-> Identity]
  /\ velocity = [k \in Keys |-> Zero3]
  /\ molecule_id = [k \in Keys |-> -1]
  /\ is_in_molecule = [k \in Keys |-> FALSE]
  /\ molecule = [k \in Keys |-> Undefined]
  /\ molObj = << >>
  /\ molecules = {}
  /\ nextId = 1
  /\ form_molecules = FALSE
  /\ pc = "input"
  /\ broadPhaseCollisions = <<>>
  /\ collisions = <<>>
  /\ idx = 1
  /\ tick = 0
  /\ sortedAxes = [axis \in 1 .. 3 |-> KeySeq]
  /\ query = "none"
  /\ _grid = [cell \in Cells |-> <<>>]
  /\ scenario = 0
  /\ _atoms = createAtoms(0)
  /\ \E axisA, axisB \in BlendAxes :
       rotation_axis = [body \in {"A", "B"} |-> Pure(IF body = "A" THEN axisA ELSE axisB)]
  /\ \E speedA, speedB \in BlendSpeeds :
       rotation_speed = [body \in {"A", "B"} |-> IF body = "A" THEN speedA ELSE speedB]
  /\ \E isA, isB \in BOOLEAN :
       \E mA \in BodyMasses(isA), mB \in BodyMasses(isB) :
         \E impulseA, impulseB \in BlendImpulses :
           contact = [isMoleculeA |-> isA, isMoleculeB |-> isB, massA |-> mA, massB |-> mB,
                      angularImpulseA |-> impulseA, angularImpulseB |-> impulseB]
  /\ _boundingBox = [k \in Keys |-> EmptyBox]
  /\ _boundingBoxDirty = [k \in Keys |-> TRUE]
  /\ history = NoHistory

(* The last block of resolveCollision. *)
UpdateRotation ==
  /\ pc = "input"
  /\ pc' = "blended"
  /\ rotation_axis' = [body \in {"A", "B"} |-> IF body = "A" THEN NewAxisA ELSE NewAxisB]
  /\ rotation_speed' = [body \in {"A", "B"} |-> IF body = "A" THEN NewSpeedA ELSE NewSpeedB]
  /\ history' = [history EXCEPT !.op = "blend"]
  /\ UNCHANGED << _grid, _boundingBox, _boundingBoxDirty, scenario, _atoms, contact >>
  /\ UNCHANGED << position, orientation, velocity, molecule_id, is_in_molecule, molecule,
                  molObj, molecules, nextId, form_molecules, broadPhaseCollisions,
                  collisions, idx, tick, sortedAxes, query >>

NextBlend == UpdateRotation

SpecBlend == InitBlend /\ [][NextBlend]_vars

----------------------------------------------------------------------------
(* A run of the simulation with the GUI's reset between two frames.        *)

(* The placements a scenario is drawn from: atoms 0, 2 and 3 keep their    *)
(* site, atom 1 coincides with atom 0 or overlaps it.                      *)
ResetSites == {<<0, 0, 0>>, <<2, 0, 0>>}

ScenarioPositions ==
  {[k \in Keys |-> IF k = 1 THEN s1 ELSE IF k = 2 THEN <<2, 0, 0>>
                   ELSE IF k = 3 THEN <<0, 3, 0>> ELSE Zero3] : s1 \in ResetSites}

ScenarioVelocities == {[k \in Keys |-> IF k = 0 THEN v ELSE Zero3] : v \in InitVelocities}

InitReset ==
  /\ position \in ScenarioPositions
  /\ orientation = [k \in Keys |-> Identity]
  /\ velocity \in ScenarioVelocities
  /\ molecule_id = [k \in Keys |-> -1]
  /\ is_in_molecule = [k \in Keys |-> FALSE]
  /\ molecule = [k \in Keys |-> Undefined]
  /\ molObj = << >>
  /\ molecules = {}
  /\ nextId = 1
  /\ form_molecules = FALSE
  /\ pc = "idle"
  /\ broadPhaseCollisions = <<>>
  /\ collisions = <<>>
  /\ idx = 1
  /\ tick = 0
  /\ sortedAxes = [axis \in 1 .. 3 |-> KeySeq]
  /\ query = "none"
  /\ _grid = [cell \in Cells |-> <<>>]
  /\ scenario = 0
  /\ _atoms = createAtoms(0)
  /\ rotation_axis = NoAxes
  /\ rotation_speed = NoSpeeds
  /\ contact = NoContact
  /\ _boundingBox = [k \in Keys |-> EmptyBox]
  /\ _boundingBoxDirty = [k \in Keys |-> TRUE]
  /\ history = NoHistory

(* clearSimulation as if it left the table of molecules as it was. *)
clearSimulationKeepingMolecules == molecules

(* Main.clearSimulation: the table of molecules it leaves (the list of     *)
(* atoms it empties is refilled by createAtoms).                           *)
clearSimulation == {}

(* Main.resetSimulation, a GUI callback that runs between two frames:      *)
(* clearSimulation, createScenario with fresh Atom objects, and a new      *)
(* CollisionDetector on them.  Molecule ids come from a counter that is    *)
(* never reset; the Molecule objects of the old run stay where they are,   *)
(* unreferenced.                                                           *)
resetSimulation ==
  /\ pc = "idle"
  /\ scenario < MaxResets
  /\ scenario' = scenario + 1
  /\ molecules' = clearSimulation
  /\ position' \in ScenarioPositions
  /\ orientation' = [k \in Keys |-> Identity]
  /\ velocity' \in ScenarioVelocities
  /\ molecule_id' = [k \in Keys |-> -1]
  /\ is_in_molecule' = [k \in Keys |-> FALSE]
  /\ molecule' = [k \in Keys |-> Undefined]
  /\ _boundingBox' = [k \in Keys |-> EmptyBox]
  /\ _boundingBoxDirty' = [k \in Keys |-> TRUE]
  /\ _atoms' = createAtoms(scenario')
  /\ UNCHANGED << rotation_axis, rotation_speed, contact >>
  /\ _grid' = [cell \in Cells |-> <<>>]
  /\ history' = [history EXCEPT !.op = "reset"]
  /\ UNCHANGED << molObj, nextId, form_molecules, pc, broadPhaseCollisions, collisions,
                  idx, tick, sortedAxes, query >>

NextReset ==
  \/ Integrate
  \/ BroadPhase
  \/ NarrowStep
  \/ NarrowDone
  \/ StickStep
  \/ EndTick
  \/ ToggleFormMolecules
  \/ resetSimulation

SpecReset == InitReset /\ [][NextReset]_vars

----------------------------------------------------------------------------
(* Properties. *)

Range(seq) == {seq[i] : i \in DOMAIN seq}

(* Both atoms are owned, and by the same molecule. *)
OwnedBySame(a, b) == is_in_molecule[a] /\ is_in_molecule[b] /\ molecule[a] = molecule[b]

(* The unordered pair {a, b} is in the candidate list. *)
IsCandidate(a, b) ==
  \E j \in DOMAIN broadPhaseCollisions :
    {broadPhaseCollisions[j][1], broadPhaseCollisions[j][2]} = {a, b}

(* C1: after a query of the uniform grid, every pair of distinct atoms     *)
(* that are not owned by the same molecule and whose axis-aligned bounding *)
(* boxes overlap is in the candidate list, wherever the atoms are: inside  *)
(* the volume, in a cell with index 0, or clamped from outside.            *)
C1_GridNoFalseNegatives ==
  (pc = "queried" /\ query = "grid") =>
    \A a, b \in Keys :
      (a < b /\ ~OwnedBySame(a, b) /\ BoxesOverlap(a, b)) => IsCandidate(a, b)

(* C2: a molecule absorbed by addMolecule into another one is no longer in *)
(* the table of active molecules, and no later tick updates it.            *)
C2_AbsorbedLeavesTable ==
  /\ history.retired \cap molecules = {}
  /\ history.op = "integrate" => history.updated \cap history.retired = {}

(* C3: whenever a sticking event with both atoms owned is handled,         *)
(* addMolecule is called on two different molecules.                       *)
C3_MergeOfDistinctMolecules ==
  history.op = "addMolecule" => history.survivor # history.other

(* The places <<m, i>> at which an active molecule lists atom k. *)
Listings(k) ==
  {place \in UNION {{<<m, i>> : i \in DOMAIN molObj[m].atoms} : m \in molecules} :
     molObj[place[1]].atoms[place[2]] = k}

(* C4: each atom is listed by at most one active molecule, at most once,   *)
(* and that molecule is the one its molecule and molecule_id fields name.  *)
C4_SingleListing ==
  \A k \in Keys :
    /\ Cardinality(Listings(k)) <= 1
    /\ \A place \in Listings(k) :
         is_in_molecule[k] /\ molecule[k] = place[1] /\ molecule_id[k] = place[1]

(* C5: the mass a molecule reports is atom_mass times the number of        *)
(* distinct atoms it owns.                                                 *)
C5_MassCountsDistinctAtoms ==
  \A m \in molecules :
    MoleculeMass(m) = atom_mass * Cardinality(Range(molObj[m].atoms))

(* The body that the membership at the broad-phase query gives atom k. *)
BodyAtQuery(k) ==
  IF history.ownerAtQuery[k] # Undefined
  THEN [isMolecule |-> TRUE, ref |-> history.ownerAtQuery[k]]
  ELSE [isMolecule |-> FALSE, ref |-> k]

NarrowOps == {"resolve", "separate"}

FormationOps == {"create", "addAtom", "addMolecule"}

(* C6, as the code has it: every candidate pair of a tick is narrow-phase  *)
(* tested and resolved before the first sticking event of the tick is      *)
(* handled, with the membership as it was at the tick's broad-phase query  *)
(* (the body that takes the impulse is the one that membership gives);     *)
(* what a sticking event changes is in effect for the later sticking       *)
(* events of the tick and for the broad and narrow phase of the next tick. *)
C6_NarrowPhaseUsesQueryMembership ==
  /\ pc = "narrow" => \A k \in Keys : Owner(k) = history.ownerAtQuery[k]
  /\ history.op \in NarrowOps =>
       /\ history.objA = BodyAtQuery(history.a)
       /\ history.objB = BodyAtQuery(history.b)
  /\ pc = "stick" => history.tested = Len(broadPhaseCollisions)
  /\ history.op \in FormationOps => OwnedBySame(history.a, history.b)

(* C6 as stated: while a candidate pair of the tick is still to be         *)
(* narrow-phase tested, the atoms of every pair already found sticking are *)
(* owned: the molecule that pair forms is in effect for the next pair.     *)
C6_FormationVisibleToNextPair ==
  (pc = "narrow" /\ idx <= Len(broadPhaseCollisions)) =>
    \A i \in DOMAIN collisions :
      collisions[i].isSticking =>
        OwnedBySame(collisions[i].pair[1], collisions[i].pair[2])

(* C7: a molecule is created for a pair only if both atoms were free when  *)
(* the event was handled; the new molecule is the only one that lists them. *)
C7_CreateOnlyForFreeAtoms ==
  history.op = "create" =>
    /\ history.freeA /\ history.freeB
    /\ history.ownerAtQuery[history.a] = Undefined => Cardinality(Listings(history.a)) = 1
    /\ history.ownerAtQuery[history.b] = Undefined => Cardinality(Listings(history.b)) = 1

(* C8: after survivor.addMolecule(other) every atom that other listed      *)
(* names the survivor in molecule and molecule_id, is flagged              *)
(* is_in_molecule and is in the survivor's list.                           *)
C8_AbsorbedAtomsNameSurvivor ==
  history.op = "addMolecule" =>
    \A k \in Range(history.otherAtoms) :
      /\ molecule[k] = history.survivor
      /\ molecule_id[k] = history.survivor
      /\ is_in_molecule[k]
      /\ k \in Range(molObj[history.survivor].atoms)

(* C9: no candidate pair of a query, of the grid or of sweep and prune,    *)
(* has both atoms owned by the same molecule.                              *)
C9_NoPairWithinMolecule ==
  pc = "queried" =>
    \A j \in DOMAIN broadPhaseCollisions :
      ~OwnedBySame(broadPhaseCollisions[j][1], broadPhaseCollisions[j][2])

(* C10: every candidate pair of a query is of two different atoms, and no  *)
(* unordered pair is in the list twice.                                    *)
C10_PairsDistinctAndUnique ==
  pc = "queried" =>
    \A j \in DOMAIN broadPhaseCollisions :
      /\ broadPhaseCollisions[j][1] # broadPhaseCollisions[j][2]
      /\ \A i \in DOMAIN broadPhaseCollisions :
           i < j => {broadPhaseCollisions[i][1], broadPhaseCollisions[i][2]}
                      # {broadPhaseCollisions[j][1], broadPhaseCollisions[j][2]}

(* C11: the narrow-phase test of (A, B) and of (B, A) give the same        *)
(* verdict and the same penetration depth, and the two contact normals are *)
(* exact opposites, also when several axes tie for the minimum overlap or  *)
(* the two centres coincide.                                               *)
C11_SATSymmetry ==
  pc = "tested" =>
    /\ history.info.isNull = history.reverse.isNull
    /\ ~history.info.isNull =>
         /\ history.info.penetrationDepth = history.reverse.penetrationDepth
         /\ history.info.contactNormal = Negate(history.reverse.contactNormal)

(* The test whose first argument is the atom at the smaller x. *)
FromSmallerX == IF position[1][1] >= 0 THEN history.info ELSE history.reverse

WeightedAverage(massBefore, vBody, vAtom) ==
  ScaleDiv(Add(Scale(vBody, massBefore), Scale(vAtom, atom_mass)), 1, massBefore + atom_mass)

(* The atom that the addAtom of the step takes: the free one of the pair. *)
C13_Joined == IF is_in_molecule[history'.a] THEN history'.b ELSE history'.a

(* C13: immediately after a molecule is created from two free atoms its    *)
(* velocity is the average (v1 + v2) / 2 of the two atoms' velocities, and *)
(* immediately after it grows by addAtom its velocity is                   *)
(* (m_before * v_molecule + atom_mass * v_atom) / (m_before + atom_mass),  *)
(* all taken as they were just before the call, m_before being the mass    *)
(* the molecule reports (getMass).                                         *)
C13_MomentumOnMerge ==
  [][/\ history'.op = "create" =>
          molObj'[history'.survivor].velocity
            = WeightedAverage(atom_mass, velocity[history'.a], velocity[history'.b])
     /\ history'.op = "addAtom" =>
          molObj'[history'.survivor].velocity
            = WeightedAverage(MoleculeMass(history'.survivor),
                              molObj[history'.survivor].velocity, velocity[C13_Joined])]_vars

(* The part of the penetration depth of the last manifold by which the     *)
(* body `moved` is pushed, `other` being the other body of the pair.       *)
C14_Share(other) ==
  (history'.info.penetrationDepth * getMass(other))
    \div (getMass(history'.objA) + getMass(history'.objB))

C15_BodyTaken(k) == IF k = history'.a THEN history'.objA ELSE history'.objB

C16_BoxFollowsPose ==
  \A k \in Keys : getBoundingBox(k) = BoxAt(position[k])

(* C17: a getBoundingBox call recomputes the box only if the box was       *)
(* marked dirty; a call that follows another call on the same atom, with   *)
(* no pose mutation between them, returns the same box value and does not  *)
(* recompute; and a call leaves the box clean.                             *)
C17_IdempotentCaching ==
  [][history'.op = "getBoundingBox" =>
       /\ history'.recomputed = _boundingBoxDirty[history'.a]
       /\ ~history'.recomputed => history'.returned = _boundingBox[history'.a]
       /\ (history.op = "getBoundingBox" /\ history.a = history'.a) =>
            (history'.returned = history.returned /\ ~history'.recomputed)
       /\ ~_boundingBoxDirty'[history'.a]
       /\ _boundingBox'[history'.a] = history'.returned]_vars

(* C18: within a tick the grid is rebuilt by the step that follows the     *)
(* two update loops, so after every atom update and every molecule update; *)
(* the rebuilt grid holds, cell by cell, the atoms that fillGrid pushes    *)
(* for the positions at the query and nothing from an earlier tick; and    *)
(* every narrow-phase test and resolution comes after the rebuild and      *)
(* takes the next pair of the candidate list, in the order of the list,    *)
(* leaving list and grid as they are.                                      *)
C18_TickOrder ==
  [][/\ history'.op = "broad" =>
          /\ history.op = "integrate"
          /\ position' = position
          /\ \A cell \in Cells : _grid'[cell] = PushedOnto(cell)
     /\ history'.op \in NarrowOps =>
          /\ pc = "narrow" /\ query = "grid"
          /\ idx \in DOMAIN broadPhaseCollisions
          /\ << history'.a, history'.b >> = broadPhaseCollisions[idx]
          /\ history'.tested = idx /\ idx' = idx + 1
          /\ broadPhaseCollisions' = broadPhaseCollisions
          /\ _grid' = _grid]_vars

(* C19: in a step taken while form_molecules is off, an event that the     *)
(* narrow phase reports has isSticking false, no molecule is created,      *)
(* grown or merged, and the membership stays as it is: the atoms that are  *)
(* free stay free, the table and the atoms lists do not change.            *)
C19_ToggleOffNoFormation ==
  [][~form_molecules =>
       /\ history'.op \in NarrowOps =>
            \A i \in DOMAIN collisions' : i > Len(collisions) => ~collisions'[i].isSticking
       /\ history'.op \notin FormationOps
       /\ is_in_molecule' = is_in_molecule
       /\ molecule' = molecule /\ molecule_id' = molecule_id
       /\ molecules' = molecules
       /\ DOMAIN molObj' = DOMAIN molObj
       /\ \A m \in DOMAIN molObj : molObj'[m].atoms = molObj[m].atoms]_vars

(* What C20 says of the manifold `info` that the test of (a, b) returned. *)
C20_Manifold(info, a, b) ==
  /\ LengthSq(info.contactNormal) = 1
  /\ Dot(info.contactNormal, Sub(position[b], position[a])) >= 0
  /\ info.penetrationDepth >= 0
  /\ \A axis \in Range(testAxes(a, b)) :
       testSeparatingAxis(a, b, axis).overlap >= info.penetrationDepth
  /\ \E axis \in Range(testAxes(a, b)) :
       /\ testSeparatingAxis(a, b, axis).overlap = info.penetrationDepth
       /\ info.contactNormal \in {axis, Negate(axis)}

(* C20: every manifold that the narrow phase returns has a normal of unit  *)
(* length whose dot product with (centre of B - centre of A) is >= 0, and  *)
(* a penetration depth >= 0 that is the minimum overlap over all tested    *)
(* axes, the normal being, up to its sign, an axis on which that minimum   *)
(* is found.                                                               *)
C20_ManifoldWellFormed ==
  pc = "tested" =>
    /\ ~history.info.isNull => C20_Manifold(history.info, 0, 1)
    /\ ~history.reverse.isNull => C20_Manifold(history.reverse, 1, 0)

(* The projections of the boxes of a and b are disjoint on some tested axis. *)
C21_Disjoint(a, b) ==
  \E axis \in Range(testAxes(a, b)) :
    \/ projectOBBOntoAxis(a, axis)[2] < projectOBBOntoAxis(b, axis)[1]
    \/ projectOBBOntoAxis(b, axis)[2] < projectOBBOntoAxis(a, axis)[1]

C22_ResetDiscardsAll ==
  history.op = "reset" =>
    /\ molecules = {}
    /\ \A k \in Keys : /\ molecule_id[k] = -1
                       /\ ~is_in_molecule[k]
                       /\ molecule[k] = Undefined
                       /\ Owner(k) = Undefined
    /\ _atoms = createAtoms(scenario)
    /\ \A atom \in _atoms : atom[1] = scenario
    /\ \A cell \in Cells : _grid[cell] = <<>>

(* C23: updateBoundingBox called while the dirty flag is clear raises an   *)
(* error and leaves the cached box and the flag as they were.              *)
C23_UpdateOfCleanBoxThrows ==
  [][(history'.op \in {"throw", "updateBoundingBox"} /\ ~_boundingBoxDirty[history'.a]) =>
       /\ history'.op = "throw"
       /\ _boundingBox' = _boundingBox
       /\ _boundingBoxDirty' = _boundingBoxDirty]_vars

(* C24: after the per-axis sort the scan that stops at the first later     *)
(* atom whose minimum exceeds the current maximum misses no atom that      *)
(* overlaps the current one on that axis, so every pair of atoms whose     *)
(* bounding boxes overlap is in all three per-axis sets.                   *)
C24_AxisOverlap(a, b, axis) ==
  getMax(a, axis) >= getMin(b, axis) /\ getMax(b, axis) >= getMin(a, axis)

C24_SweepIsSound ==
  query = "sap" =>
    \A a, b \in Keys :
      a < b =>
        /\ \A axis \in 1 .. 3 :
             C24_AxisOverlap(a, b, axis) =>
               SetHas(sweepAxis(sortedAxes[axis], axis), KeyPair(a, b))
        /\ BoxesOverlap(a, b) =>
             \A axis \in 1 .. 3 : SetHas(sweepAxis(sortedAxes[axis], axis), KeyPair(a, b))

(* C25: when body B of a resolved contact is a molecule, its new rotation  *)
(* axis and rotation speed are interpolated from B's current angular state *)
(* toward B's own new angular velocity (its angular velocity plus its      *)
(* angular impulse) by the blend factor; A's new angular velocity has no   *)
(* part in them.                                                           *)
C25_BlendTowardOwnAngularVelocity ==
  [][(pc' = "blended" /\ contact.isMoleculeB) =>
       /\ rotation_axis'["B"] =
            slerp(rotation_axis["B"], normalize(newAngularVelB), BlendFactor)
       /\ rotation_speed'["B"] =
            lerp(rotation_speed["B"], length(newAngularVelB), BlendFactor)]_vars

(* C26: the positional correction of resolveCollision moves A by          *)
(* -normal * depth * mB / (mA + mB) and B by +normal * depth * mA / (mA +   *)
(* mB) and nothing else; where the two shares are whole numbers they add   *)
(* up to the depth and the mass-weighted centre stays (where they are      *)
(* rounded down, the sum is short of the depth by less than one unit per   *)
(* share and the centre is off by less than the larger mass); the heavier  *)
(* body moves no farther than the lighter one.                             *)
C26_Share(depth, massOther, massA, massB) == (depth * massOther) \div (massA + massB)

C26_Exact(depth, massA, massB) ==
  (depth * massA) % (massA + massB) = 0 /\ (depth * massB) % (massA + massB) = 0

C26_Shares(depth, massA, massB) ==
  /\ C26_Exact(depth, massA, massB) =>
       /\ C26_Share(depth, massB, massA, massB) + C26_Share(depth, massA, massA, massB) = depth
       /\ massA * C26_Share(depth, massB, massA, massB)
            = massB * C26_Share(depth, massA, massA, massB)
  /\ C26_Share(depth, massB, massA, massB) + C26_Share(depth, massA, massA, massB)
       \in {depth - 1, depth}
  /\ Abs(massA * C26_Share(depth, massB, massA, massB)
           - massB * C26_Share(depth, massA, massA, massB)) < Max(massA, massB)
  /\ massA >= massB =>
       C26_Share(depth, massB, massA, massB) <= C26_Share(depth, massA, massA, massB)
  /\ massB >= massA =>
       C26_Share(depth, massA, massA, massB) <= C26_Share(depth, massB, massA, massB)

C26_Displaced(info, objA, objB, massA, massB) ==
  \A k \in Keys :
    position'[k] =
      IF k \in AtomsOf(objA)
      THEN Sub(position[k], Scale(info.contactNormal,
                                  C26_Share(info.penetrationDepth, massB, massA, massB)))
      ELSE IF k \in AtomsOf(objB)
      THEN Add(position[k], Scale(info.contactNormal,
                                  C26_Share(info.penetrationDepth, massA, massA, massB)))
      ELSE position[k]

C26_PositionalCorrection ==
  [][history'.op = "resolve" =>
       /\ C26_Displaced(history'.info, history'.objA, history'.objB,
                        getMass(history'.objA), getMass(history'.objB))
       /\ C26_Shares(history'.info.penetrationDepth,
                     getMass(history'.objA), getMass(history'.objB))]_vars

(* C27: for two cubes in exact, laterally aligned face-to-face contact     *)
(* (atom 1 displaced from atom 0 along one world axis by no more than the  *)
(* edge, orientations by multiples of 90 degrees, penetration smaller than *)
(* the edge), areMatchingFacesColliding is true exactly if the two faces   *)
(* in contact carry the same label on both cubes.                          *)
C27_FaceNormals ==
  << <<0, 0, -1>>, <<0, 0, 1>>, <<-1, 0, 0>>, <<1, 0, 0>>, <<0, 1, 0>>, <<0, -1, 0>> >>

(* The label (0 .. 5) of the face of atom k that looks along dir. *)
C27_FaceLabel(k, dir) ==
  CHOOSE f \in 0 .. 5 : Apply(orientation[k], C27_FaceNormals[f + 1]) = dir

(* The world axis directions along which atom 1 lies from atom 0. *)
C27_ContactDirs ==
  {dir \in Range(C27_FaceNormals) :
     \E d \in 1 .. atom_size : Sub(position[1], position[0]) = Scale(dir, d)}

C27_MatchingIffSameLabel ==
  (pc = "tested" /\ C27_ContactDirs # {}) =>
    \A dir \in C27_ContactDirs :
      areMatchingFacesColliding(0, 1)
        <=> (C27_FaceLabel(0, dir) = C27_FaceLabel(1, Negate(dir)))

(* C28: resolveCollision is never run on a pair whose two atoms are owned  *)
(* by the same molecule, so the two bodies it moves and applies impulses   *)
(* to are two distinct objects.                                            *)
C28_ResolveOnDistinctBodies ==
  [][history'.op = "resolve" =>
       /\ ~OwnedBySame(history'.a, history'.b)
       /\ history'.a # history'.b
       /\ history'.objA # history'.objB
       /\ AtomsOf(history'.objA) \cap AtomsOf(history'.objB) = {}]_vars

(* C29: when resolveCollision applies an impulse (the bodies are not       *)
(* moving apart), the total linear momentum mA * vA + mB * vB of the two   *)
(* bodies is the same after as before where impulse / mA and impulse / mB  *)
(* are whole numbers, and within the rounding of the two quotients         *)
(* otherwise.                                                              *)
C29_VelocityOf(vel, objs, body) ==
  IF body.isMolecule THEN objs[body.ref].velocity ELSE vel[body.ref]

C29_Momentum(vel, objs, objA, objB) ==
  Add(Scale(C29_VelocityOf(vel, objs, objA), getMass(objA)),
      Scale(C29_VelocityOf(vel, objs, objB), getMass(objB)))

C29_Impulse(info, normalVelocity, objA, objB) ==
  impulseOf(info.contactNormal, normalVelocity, getMass(objA), getMass(objB))

C29_Exact(impulse, massA, massB) ==
  \A c \in 1 .. 3 : impulse[c] % massA = 0 /\ impulse[c] % massB = 0

C29_Conserved(before, after, impulse, massA, massB) ==
  /\ C29_Exact(impulse, massA, massB) => after = before
  /\ \A c \in 1 .. 3 : Abs(after[c] - before[c]) < Max(massA, massB)

C29_ImpulseConservesMomentum ==
  [][(history'.op = "resolve" /\ history'.normalVelocity >= 0) =>
       C29_Conserved(C29_Momentum(velocity, molObj, history'.objA, history'.objB),
                     C29_Momentum(velocity', molObj', history'.objA, history'.objB),
                     C29_Impulse(history'.info, history'.normalVelocity,
                                 history'.objA, history'.objB),
                     getMass(history'.objA), getMass(history'.objB))]_vars

(* C30: for any atom position, inside or outside the simulation volume,   *)
(* getAddress returns indices in 0 .. num_rows - 1 on every axis, so the   *)
(* cell that fillGrid writes for an atom, and every cell that the scan of  *)
(* the 27 neighbours reads after its range test, is a cell of the grid.    *)
C30_Scanned(k) ==
  {Add(getAddress(k), NEIGHBORS(i)) : i \in 0 .. 26}

C30_AddressInsideGrid ==
  (pc = "queried" /\ query = "grid") =>
    \A k \in Keys :
      /\ \A axis \in 1 .. 3 : getAddress(k)[axis] \in 0 .. (num_rows - 1)
      /\ getAddress(k) \in Cells
      /\ IsFilled(k) => k \in Range(_grid[getAddress(k)])
      /\ \A cell \in C30_Scanned(k) : InGridRange(cell) => cell \in Cells

(* Reachable cases. *)

(* A pair tested in the narrow phase with a molecule as one of its bodies, *)
(* the molecule formed on an earlier tick.                                 *)
C6_Witness ==
  /\ history.op = "resolve"
  /\ history.objA.isMolecule \/ history.objB.isMolecule
  /\ \E i \in DOMAIN collisions : collisions[i].isSticking

(* A molecule created for two free atoms after an earlier event of the     *)
(* same tick made other atoms join a molecule.                             *)
C7_Witness ==
  /\ history.op = "create"
  /\ \E k \in Keys \ {history.a, history.b} :
       history.ownerAtQuery[k] = Undefined /\ is_in_molecule[k]

(* Two different molecules merged. *)
C8_Witness ==
  /\ history.op = "addMolecule"
  /\ history.survivor # history.other
  /\ Len(history.otherAtoms) >= 2

(* A query that returns candidates while two atoms of one molecule have    *)
(* overlapping boxes in cells the grid fills.                              *)
C9_Witness ==
  /\ pc = "queried"
  /\ Len(broadPhaseCollisions) > 0
  /\ \E a, b \in Keys :
       a < b /\ OwnedBySame(a, b) /\ BoxesOverlap(a, b) /\ IsFilled(a) /\ IsFilled(b)

(* A grid query in which an atom and its candidate are in different cells, *)
(* so that each of the two finds the other.                                *)
C10_Witness ==
  /\ pc = "queried" /\ query = "grid"
  /\ \E j \in DOMAIN broadPhaseCollisions :
       getAddress(broadPhaseCollisions[j][1]) # getAddress(broadPhaseCollisions[j][2])

C13_Witness ==
  /\ history.op \in {"create", "addAtom"}
  /\ molObj[history.survivor].velocity # Zero3

C17_Witness ==
  /\ history.op = "getBoundingBox"
  /\ history.calls = 3
  /\ position[history.a] # Zero3
  /\ history.returned = BoxAt(position[history.a])

(* The rebuild of a later tick, after an update that moved an atom which   *)
(* the grid holds.                                                         *)
C18_Witness ==
  /\ history.op = "broad"
  /\ tick >= 2
  /\ \E k \in Keys : velocity[k] # Zero3 /\ IsFilled(k) /\ _grid[getAddress(k)] # <<>>

(* With the toggle off, on a tick after the first, the event of two atoms  *)
(* whose faces match is handled and nothing is formed.                     *)
C19_Witness ==
  /\ ~form_molecules
  /\ tick >= 2
  /\ history.op = "bounce"
  /\ areMatchingFacesColliding(history.a, history.b)
  /\ ~is_in_molecule[history.a] /\ ~is_in_molecule[history.b]

(* A manifold of two cubes rotated differently that overlap by different   *)
(* amounts on the three axes, the least on the last one, B lying on the    *)
(* negative side of it.                                                    *)
C20_Witness ==
  /\ pc = "tested"
  /\ orientation[0] # orientation[1]
  /\ position[1] = <<-1, 0, 2>> \/ position[1] = <<0, -1, -2>>
  /\ ~history.info.isNull
  /\ history.info.penetrationDepth = 2

C22_Witness ==
  /\ history.op = "reset"
  /\ scenario > 0
  /\ nextId > 1


(* The call threw on the clean box of an atom that an update had moved. *)
C23_Witness ==
  /\ history.op = "throw"
  /\ ~_boundingBoxDirty[history.a]
  /\ position[history.a] # Zero3
  /\ _boundingBox[history.a] = BoxAt(position[history.a])


(* A molecule and a free atom were pushed apart, the atom farther. *)
C26_Witness ==
  /\ history.op = "resolve"
  /\ history.objA.isMolecule # history.objB.isMolecule
  /\ getMass(history.objA) # getMass(history.objB)
  /\ C26_Share(history.info.penetrationDepth, getMass(history.objB),
               getMass(history.objA), getMass(history.objB))
       # C26_Share(history.info.penetrationDepth, getMass(history.objA),
                   getMass(history.objA), getMass(history.objB))


(* A contact of an atom of a molecule was resolved in a tick in which two  *)
(* atoms of that molecule overlap each other.                              *)
C28_Witness ==
  /\ history.op = "resolve"
  /\ history.objA.isMolecule \/ history.objB.isMolecule
  /\ \E a, b \in Keys :
       /\ a < b /\ OwnedBySame(a, b) /\ BoxesOverlap(a, b)
       /\ a \in {history.a, history.b}


(* An impulse that is not zero was applied to two approaching bodies of    *)
(* different mass.                                                         *)
C29_Witness ==
  /\ history.op = "resolve"
  /\ history.normalVelocity > 0
  /\ getMass(history.objA) # getMass(history.objB)
  /\ C29_Impulse(history.info, history.normalVelocity, history.objA, history.objB) # Zero3


(* The grid was queried with an atom beyond the volume on two sides: past  *)
(* the upper face on x (last row) and past the lower face on y (row 0).    *)
C30_Witness ==
  /\ pc = "queried" /\ query = "grid"
  /\ \E k \in Keys :
       /\ position[k][1] > simulation_size \div 2
       /\ getAddress(k)[1] = num_rows - 1
       /\ position[k][2] < -(simulation_size \div 2)
       /\ getAddress(k)[2] = 0

====
